---- MODULE Spec2Model ----
(***************************************************************************)
(* LivellmProxy (livellm/proxy/livellm_client.py): provider resolution,    *)
(* fallback across providers, and capability-aware preprocessing of        *)
(* binary messages, over the transport of LivellmProxyClient               *)
(* (livellm/proxy/raw_client.py).                                          *)
(*                                                                         *)
(* One public call runs per behaviour.  The code between two awaits on the *)
(* transport runs without interruption (asyncio), so an action is the code *)
(* from one suspension point to the next: the public operation up to its   *)
(* first transport call, then one action per way the transport call in     *)
(* flight can end, each running the caller's code up to the next transport *)
(* call or to the end of the public call.                                  *)
(***************************************************************************)
EXTENDS Integers, Sequences, FiniteSets, TLC

\* ------------------------------------------------------------------ bounds
MaxProviders == 2
MaxMessages == 2
MaxChunks == 2
\* The transport fails at most this many non-streaming attempts of one call.
MaxFailures == 2

\* The entries an lru_cache wrapper holds: the code's maxsize is 128.
MaxCache == 2

\* The public calls that run interleaved on one client.
MaxCalls == 2

\* ------------------------------------------------------------- data model
\* ModelCapability (models/provider.py)
AUDIO_AGENT == "audio_agent"
IMAGE_AGENT == "image_agent"
VIDEO_AGENT == "video_agent"
SPEAK == "speak"
TRANSCRIBE == "transcribe"
ModelCapability == {AUDIO_AGENT, IMAGE_AGENT, VIDEO_AGENT, SPEAK, TRANSCRIBE}

\* MessageRole (models/message.py)
USER == "user"
MODEL == "model"
SYSTEM == "system"

\* Model(name, capabilities): capabilities is a list read only through "in".
Model(name, capabilities) == [name |-> name, capabilities |-> capabilities]

\* A MIME type is the sequence of the pieces of its text, cut so that the
\* words the code searches for are pieces: "image/png" is <<"image","/","png">>.
NoMime == <<>>
TextMessage(role, content) ==
    [type |-> "text", role |-> role, content |-> content, mime_type |-> NoMime]
BinaryMessage(role, content, mime_type) ==
    [type |-> "binary", role |-> role, content |-> content, mime_type |-> mime_type]
IsBinary(message) == message.type = "binary"

\* Python's `word in mime_type` on strings: substring search.
Contains(mime_type, word) == \E i \in DOMAIN mime_type : mime_type[i] = word

\* The model names a caller may ask for, and the model lists a provider may be
\* configured with (a provider may list a name twice, with different
\* capabilities, and two providers may describe one name differently).
ModelNames == {"M", "N"}
ModelLists ==
    { << Model("M", {}) >>,
      << Model("M", {IMAGE_AGENT}) >>,
      << Model("N", {IMAGE_AGENT, AUDIO_AGENT}) >> }

\* ProviderConfig(creds, models); the i-th registered provider holds the
\* credentials i.
ProviderConfig(creds, models) == [creds |-> creds, models |-> models]
ProviderLists ==
    UNION { { [i \in 1..n |-> ProviderConfig(i, ml[i])] : ml \in [1..n -> ModelLists] }
            : n \in 0..MaxProviders }

\* base64.b64encode(content).decode('utf-8'): the text that encodes the bytes.
b64encode(content) == << "base64" >> \o content

\* BinaryMessage.from_bytes(content, mime_type, role=MessageRole.USER): the
\* role the caller gives, or "user" by default, goes to the constructor as it is.
from_bytes(content, mime_type, role) ==
    BinaryMessage(role, b64encode(content), mime_type)

\* The messages a caller may pass: a text message, and binary messages built
\* with from_bytes, with the default role or with a role of the caller's.
MessageKinds ==
    { TextMessage(SYSTEM, <<"hello">>),
      from_bytes(<<"png-bytes">>, <<"image", "/", "png">>, USER),
      from_bytes(<<"wav-bytes">>, <<"audio", "/", "wav">>, MODEL),
      from_bytes(<<"pdf-bytes">>, <<"application", "/", "pdf">>, USER),
      from_bytes(<<"x-audio-bytes">>, <<"application", "/", "x-", "audio">>, USER) }
MessageLists ==
    UNION { [1..n -> MessageKinds] : n \in 0..MaxMessages }

\* Outcomes of a Python call: a value returned or an exception raised.
Return(val) == [ok |-> TRUE, val |-> val]
Raise(kind, detail) == [ok |-> FALSE, val |-> [kind |-> kind, detail |-> detail]]

VARIABLES
    providers,      \* self.providers, fixed at construction
    clients,        \* the provider list of every client constructed, in
                    \* order of construction
    self,           \* the client the method runs on, by its place in clients
    cache,          \* the state of the two lru_cache wrappers, which all
                    \* clients share
    calls,          \* the public calls that run interleaved on one client,
                    \* each with its own locals
    heap,           \* the caller's message list, the list __binaries_to_text
                    \* builds and the message objects, each by identity
    op,             \* the public operation called, "none" before the call
    model,          \* its model argument
    messages,       \* its messages argument (agent operations)
    force_binary_transformation,
    gen_config,     \* its remaining keyword arguments (agent operations)
    pc,             \* where the call stands: idle, await, returned, opening,
                    \* streaming, done
    pre,            \* locals of __binaries_to_text and of
                    \* __run_binary_transformer_with_fallback while a
                    \* transformation sub-request is in flight
    fb,             \* locals of the running __run_with_fallback
    sent,           \* every transport call issued so far, in order, each with
                    \* the run of __run_with_fallback it belongs to and with
                    \* what the transport answered
    result,         \* what the caller (or the stream's consumer) got
    preprocessed,   \* whether __preprocess_messages has returned, and its list
    stream,         \* the transport's stream: none, opening, open, closed, failed
    produced,       \* chunks the transport stream has yielded
    delivered,      \* chunks the consumer has received
    failures        \* attempts the transport has failed so far

inputs == <<op, model, messages, force_binary_transformation, gen_config>>
client_state == << providers, clients, self, cache, calls, heap >>
vars == <<providers, clients, self, cache, calls, heap, op, model, messages, force_binary_transformation, gen_config,
          pc, pre,
          fb, sent, result, preprocessed, stream, produced, delivered, failures>>

\* --------------------------------------------------- 4.1 registry lookups
\* for provided_model in provider.models: if provided_model.name == model
RECURSIVE FirstModelNamed(_, _, _)
FirstModelNamed(models, j, name) ==
    IF j > Len(models) THEN 0
    ELSE IF models[j].name = name THEN j
    ELSE FirstModelNamed(models, j + 1, name)

\* Mutant: the inner loop without its break appends the creds once per
\* matching model.
CredsOfProvider_no_break(provider, name) ==
    [k \in 1..Len(SelectSeq(provider.models, LAMBDA m : m.name = name)) |-> provider.creds]

\* The inner loop of __get_providers_for_model over one provider: append the
\* provider's creds at the first match and break.
CredsOfProvider(provider, name) ==
    IF FirstModelNamed(provider.models, 1, name) > 0
    THEN << provider.creds >>
    ELSE << >>

RECURSIVE ScanProviders(_, _)
ScanProviders(i, name) ==
    IF i > Len(providers) THEN << >>
    ELSE CredsOfProvider(providers[i], name) \o ScanProviders(i + 1, name)

\* Mutant: an unknown name yields an empty candidate list instead of raising.
get_providers_for_model_empty(name) == Return(ScanProviders(1, name))

get_providers_for_model(name) ==
    LET provider_creds == ScanProviders(1, name)
    IN  IF provider_creds = << >>
        THEN Raise("ModelNotFound", << name >>)
        ELSE Return(provider_creds)

\* The return inside the loops of __get_model_capabilities.
FirstCapabilities(models, j) == models[j].capabilities

RECURSIVE ScanCapabilities(_, _)
ScanCapabilities(i, name) ==
    IF i > Len(providers) THEN Raise("ModelNotFound", << name >>)
    ELSE LET j == FirstModelNamed(providers[i].models, 1, name)
         IN  IF j > 0
             THEN Return(FirstCapabilities(providers[i].models, j))
             ELSE ScanCapabilities(i + 1, name)

\* Mutant: the scan keeps the last match instead of returning at the first.
RECURSIVE ScanCapabilities_last(_, _)
ScanCapabilities_last(i, name) ==
    IF i = 0 THEN Raise("ModelNotFound", << name >>)
    ELSE LET hits == SelectSeq(providers[i].models, LAMBDA m : m.name = name)
         IN  IF hits # << >> THEN Return(hits[Len(hits)].capabilities)
             ELSE ScanCapabilities_last(i - 1, name)
get_model_capabilities_last(name) == ScanCapabilities_last(Len(providers), name)

get_model_capabilities(name) == ScanCapabilities(1, name)

\* ------------------------------------------- the lru_cache of the lookups
\* The lookups of the sections below are the scans above.  Both methods are
\* wrapped by functools.lru_cache; what the wrapper adds is modelled here, and
\* checked to return what the scan returns.

\* Mutant: every client makes the key the first client makes.
make_key_shared(client, name) == << 1, name >>

\* The key lru_cache makes of the arguments (self, model): self is hashed and
\* compared by identity, so the key holds the client and the name.
make_key(client, name) == << client, name >>

\* No lookup was made yet.  `last` says what the last call of a wrapper did.
EmptyCache ==
    [providers_for_model |-> << >>, model_capabilities |-> << >>, last |-> "none"]

\* The place of the entry for `key` among the entries, 0 when there is none.
Position(entries, key) ==
    IF \E i \in DOMAIN entries : entries[i].key = key
    THEN CHOOSE i \in DOMAIN entries : entries[i].key = key
    ELSE 0

\* One call of an lru_cache wrapper that holds `entries`, the least recently
\* used first; `call` is the outcome of the wrapped method for the arguments.
\* A hit returns the stored value and makes the entry the most recently used;
\* a miss calls the method: an exception passes through and nothing is stored,
\* a value is stored, in the place of the least recently used entry when the
\* cache is full.
lru_cache(entries, key, call) ==
    LET i == Position(entries, key)
    IN  IF i # 0
        THEN [entries |-> SubSeq(entries, 1, i - 1)
                            \o SubSeq(entries, i + 1, Len(entries))
                            \o << entries[i] >>,
              out |-> Return(entries[i].value),
              how |-> "hit"]
        ELSE IF ~call.ok
        THEN [entries |-> entries, out |-> call, how |-> "raised"]
        ELSE IF Len(entries) >= MaxCache
        THEN [entries |-> Append(Tail(entries), [key |-> key, value |-> call.val]),
              out |-> call,
              how |-> "evicted"]
        ELSE [entries |-> Append(entries, [key |-> key, value |-> call.val]),
              out |-> call,
              how |-> "miss"]

\* ---------------------------------------------------- 4.3 preprocessing
RECURSIVE ScanModels(_, _)
ScanModels(i, capability) ==
    IF i > Len(providers) THEN << >>
    ELSE SelectSeq(providers[i].models, LAMBDA m : capability \in m.capabilities)
         \o ScanModels(i + 1, capability)

\* Mutant: an empty list of capable models is returned instead of raising.
find_models_with_capability_empty(capability) == Return(ScanModels(1, capability))

find_models_with_capability(capability) ==
    LET models == ScanModels(1, capability)
    IN  IF models = << >>
        THEN Raise("NoCapableModel", << capability >>)
        ELSE Return(models)

\* The if/elif chain on mime_type shared by __required_capabilities and
\* __binary_to_text.
CapabilityOfMime(mime_type) ==
    IF Contains(mime_type, "image") THEN Return(IMAGE_AGENT)
    ELSE IF Contains(mime_type, "video") THEN Return(VIDEO_AGENT)
    ELSE IF Contains(mime_type, "audio") THEN Return(AUDIO_AGENT)
    ELSE Raise("UnsupportedMimeType", mime_type)

RECURSIVE RequiredFrom(_, _, _)
RequiredFrom(msgs, i, acc) ==
    IF i > Len(msgs) THEN Return(acc)
    ELSE IF ~IsBinary(msgs[i]) THEN RequiredFrom(msgs, i + 1, acc)
    ELSE LET c == CapabilityOfMime(msgs[i].mime_type)
         IN  IF c.ok THEN RequiredFrom(msgs, i + 1, Append(acc, c.val)) ELSE c

required_capabilities(msgs) == RequiredFrom(msgs, 1, << >>)

\* The fixed system prompts of __audio_to_text, __image_to_text, __video_to_text.
SystemPrompt(capability) ==
    CASE capability = AUDIO_AGENT -> << "You will act as ASR." >>
      [] capability = IMAGE_AGENT -> << "You will act as OCR." >>
      [] capability = VIDEO_AGENT -> << "You will act as VSR." >>

\* __binary_to_text up to the call of the modality's transformer: the candidate
\* models and the prompt.
binary_to_text(binary_message, primary_model) ==
    LET c == CapabilityOfMime(binary_message.mime_type)
    IN  IF ~c.ok THEN c
        ELSE LET found == find_models_with_capability(c.val)
                 first == IF c.val \in primary_model.capabilities
                          THEN << primary_model >> ELSE << >>
             IN  IF ~found.ok THEN found
                 ELSE Return([models |-> first \o found.val,
                              system |-> SystemPrompt(c.val)])

\* ------------------------------------------------------ requests, results
\* What the caller passes on unchanged.
CallerTools == << "web_search" >>

\* A dict of generation settings: for each keyword, << >> when the keyword is
\* absent and << value >> when it is present.
NoKeywords == [temperature |-> << >>, model_capabilities |-> << >>]
\* gen_config={"temperature": 0.0}
TransformerGenConfig == [NoKeywords EXCEPT !.temperature = << 0 >>]
\* **gen_config of agent_run and agent_run_stream: every keyword argument that
\* is not a parameter of the method.  A caller passes none, or passes
\* model_capabilities=[] as examples/binary_messages.py does.
GenConfigs ==
    { NoKeywords, [NoKeywords EXCEPT !.model_capabilities = << {} >>] }

\* AgentRequest(model, messages, tools, gen_config); a SpeakRequest and the
\* arguments of a transcription have no messages and no tools.
AgentRequest(name, msgs, tools, kw) ==
    [model |-> name, messages |-> msgs, tools |-> tools, gen_config |-> kw]
SpeakRequest(name) == AgentRequest(name, << >>, << >>, NoKeywords)

\* What the transport answers to a successful call, and the error of a failed one.
Output(call, cred, request) == << "output", call, cred, request.model >>
TransportError(cred) == [kind |-> "TransportError", detail |-> << cred >>]

NoPre == [msg_i |-> 0, out |-> << >>, models |-> << >>, model_i |-> 0,
          errors |-> << >>, system |-> << >>, primary_model |-> Model("", {})]
NoFb == [frame |-> "none", call |-> "none", request |-> SpeakRequest(""),
         creds |-> << >>, cred_i |-> 0, errors |-> << >>]
NoResult == Return([response |-> << >>, messages |-> << >>])
\* No call of __preprocess_messages has been made: no list and no message.
NoHeap == [objects |-> << >>, lists |-> << >>, i |-> 0, acc |-> 0, out |-> 0,
           primary_model |-> Model("", {}), pc |-> "idle"]
NotPreprocessed == [returned |-> FALSE, messages |-> << >>]

\* ------------------------------------------- preprocessing, up to an await
\* Mutant: the transformed message is always given the user role.
TransformedMessage_user(binary_message, text_content) ==
    TextMessage(USER, text_content)

\* __messages.append(TextMessage(role=message.role, content=text_content))
TransformedMessage(binary_message, text_content) ==
    TextMessage(binary_message.role, text_content)

\* Mutant: the error list is overwritten instead of appended to.
RecordError_overwrite(errors, name, e) == << << name, e >> >>

\* Mutant: an aggregate error is recorded as its inner entries, one by one.
RecordError_unfolded(errors, name, e) ==
    IF e.kind = "FallbackExhausted" THEN errors \o e.detail[2]
    ELSE Append(errors, << name, e >>)

\* errors.append((model, str(e)))
RecordError(errors, name, e) == Append(errors, << name, e >>)

\* Mutant: the sub-request carries the caller's tools and the default
\* generation settings.
TransformerRequest_caller(binary_message, name, system_prompt) ==
    AgentRequest(name,
                 << TextMessage(SYSTEM, system_prompt), binary_message >>,
                 CallerTools,
                 NoKeywords)

\* __run_agent_as_binary_transformer: the sub-request for one candidate model.
TransformerRequest(binary_message, name, system_prompt) ==
    AgentRequest(name,
                 << TextMessage(SYSTEM, system_prompt), binary_message >>,
                 << >>,
                 TransformerGenConfig)

\* Mutant: the loop over the candidate models starts over at the model that
\* has just failed.
NextModel_again(models, k, errs) ==
    [k |-> IF k > 1 THEN k - 1 ELSE k, errors |-> errs]

\* Mutant: the loop over the candidate models goes straight to the last one.
NextModel_last(models, k, errs) ==
    IF k > Len(models) THEN [k |-> k, errors |-> errs]
    ELSE [k |-> Len(models), errors |-> errs]

\* The loop of __run_binary_transformer_with_fallback from models[k] on, up to
\* the first candidate model whose sub-request reaches the transport: a
\* candidate whose provider lookup raises is recorded and skipped.
RECURSIVE NextModel(_, _, _)
NextModel(models, k, errs) ==
    IF k > Len(models) THEN [k |-> k, errors |-> errs]
    ELSE LET r == get_providers_for_model(models[k].name)
         IN  IF r.ok THEN [k |-> k, errors |-> errs]
             ELSE NextModel(models, k + 1, RecordError(errs, models[k].name, r.val))

TransformerExhausted(errs) ==
    [kind |-> "FallbackExhausted", detail |-> << "binary transformer", errs >>]
Exhausted(errs) ==
    [kind |-> "FallbackExhausted", detail |-> << "executable", errs >>]

\* Where preprocessing stands when it stops running: it returned `out`, it
\* raised `err`, or it awaits the transport call of a sub-request.
Plan(at, p, out, err) == [at |-> at, pre |-> p, out |-> out, err |-> err]

\* The loop of __binaries_to_text from messages[i] on, with __messages = acc.
RECURSIVE binaries_to_text(_, _, _, _)
binaries_to_text(msgs, i, acc, primary_model) ==
    IF i > Len(msgs) THEN Plan("return", NoPre, acc, NoResult.val)
    ELSE IF ~IsBinary(msgs[i])
    THEN binaries_to_text(msgs, i + 1, Append(acc, msgs[i]), primary_model)
    ELSE LET c == binary_to_text(msgs[i], primary_model)
         IN  IF ~c.ok THEN Plan("raise", NoPre, << >>, c.val)
             ELSE LET nm == NextModel(c.val.models, 1, << >>)
                  IN  IF nm.k > Len(c.val.models)
                      THEN Plan("raise", NoPre, << >>, TransformerExhausted(nm.errors))
                      ELSE Plan("await",
                                [msg_i |-> i, out |-> acc, models |-> c.val.models,
                                 model_i |-> nm.k, errors |-> nm.errors,
                                 system |-> c.val.system,
                                 primary_model |-> primary_model],
                                << >>, NoResult.val)

\* Mutant: any required capability triggers the transformation.
NeedsTransformation_any(required, capabilities) == required # << >>

\* not all(capability in model_obj.capabilities for capability in required)
NeedsTransformation(required, capabilities) ==
    ~ \A q \in DOMAIN required : required[q] \in capabilities

\* Mutant: the force flag is ignored.
preprocess_messages_unforced(msgs, name, force) ==
    LET model_capabilities == get_model_capabilities(name)
    IN  IF ~model_capabilities.ok
        THEN Plan("raise", NoPre, << >>, model_capabilities.val)
        ELSE LET model_obj == Model(name, model_capabilities.val)
                 required == required_capabilities(msgs)
             IN  IF ~required.ok THEN Plan("raise", NoPre, << >>, required.val)
                 ELSE IF NeedsTransformation(required.val, model_obj.capabilities)
                 THEN binaries_to_text(msgs, 1, << >>, model_obj)
                 ELSE Plan("return", NoPre, msgs, NoResult.val)

\* Mutant: the list returned without transformation is a new, empty one.
PassThrough_empty(msgs) == << >>

\* `return messages`: the caller's list as it is.
PassThrough(msgs) == msgs

\* __preprocess_messages(messages, model, force_binary_transformation)
preprocess_messages(msgs, name, force) ==
    LET model_capabilities == get_model_capabilities(name)
    IN  IF ~model_capabilities.ok
        THEN Plan("raise", NoPre, << >>, model_capabilities.val)
        ELSE LET model_obj == Model(name, model_capabilities.val)
                 required == required_capabilities(msgs)
             IN  IF force THEN binaries_to_text(msgs, 1, << >>, model_obj)
                 ELSE IF ~required.ok THEN Plan("raise", NoPre, << >>, required.val)
                 ELSE IF NeedsTransformation(required.val, model_obj.capabilities)
                 THEN binaries_to_text(msgs, 1, << >>, model_obj)
                 ELSE Plan("return", NoPre, PassThrough(msgs), NoResult.val)

\* ------------------------------------------------------- 4.2 the executor
\* The call ends: a value or an exception reaches the caller or the consumer.
\* `log` is the transport log with the answer to the call in flight recorded.
Finish(res, log) ==
    /\ pc' = "done"
    /\ result' = res
    /\ sent' = log
    /\ UNCHANGED fb

Answered(outcome) == [sent EXCEPT ![Len(sent)].outcome = outcome]
LastRun(log) == IF log = << >> THEN 0 ELSE log[Len(log)].run

\* Mutant: the attempt on the next candidate is started together with the
\* attempt on creds[i].
Issue_parallel(frame, call, request, creds, i, errs, fresh, log) ==
    LET run == IF fresh THEN LastRun(log) + 1 ELSE LastRun(log)
        attempt(c) == [call |-> call, request |-> request, cred |-> c,
                       frame |-> frame, run |-> run, outcome |-> "pending"]
        both == IF i < Len(creds)
                THEN << attempt(creds[i]), attempt(creds[i + 1]) >>
                ELSE << attempt(creds[i]) >>
    IN  /\ pc' = "await"
        /\ fb' = [frame |-> frame, call |-> call, request |-> request,
                  creds |-> creds, cred_i |-> i + Len(both) - 1, errors |-> errs]
        /\ sent' = log \o both
        /\ UNCHANGED result

\* Mutant: the request is fitted to the candidate: a candidate after the first
\* gets it without its binary messages.
CandidateRequest_fitted(request, cred_i) ==
    IF cred_i > 1
    THEN [request EXCEPT !.messages = SelectSeq(@, LAMBDA m : ~IsBinary(m))]
    ELSE request

\* exec_agent(cred) and its like close over the one request of the call: the
\* candidate gives the credentials and nothing of the request.
CandidateRequest(request, cred_i) == request

\* One attempt of __run_with_fallback: executable(creds[i]) reaches the
\* transport and the coroutine is awaited.  `fresh` says that the attempt is
\* the first of a new run of __run_with_fallback.
Issue(frame, call, request, creds, i, errs, fresh, log) ==
    /\ pc' = "await"
    /\ fb' = [frame |-> frame, call |-> call, request |-> request,
              creds |-> creds, cred_i |-> i, errors |-> errs]
    /\ sent' = Append(log, [call |-> call, request |-> CandidateRequest(request, i),
                            cred |-> creds[i],
                            frame |-> frame,
                            run |-> IF fresh THEN LastRun(log) + 1 ELSE LastRun(log),
                            outcome |-> "pending"])
    /\ UNCHANGED result

\* Mutant: a speak or transcribe call goes only to the providers whose
\* descriptor of the model advertises the capability of the call.
StartPrimary_gated(call, request, log) ==
    LET creds == get_providers_for_model(request.model)
        needed == CASE call = "audio_speak" -> {SPEAK}
                    [] call = "audio_transcribe" -> {TRANSCRIBE}
                    [] OTHER -> {}
        advertises(c) ==
            LET listed == providers[CHOOSE i \in DOMAIN providers : providers[i].creds = c].models
            IN  needed \subseteq listed[FirstModelNamed(listed, 1, request.model)].capabilities
        capable == IF creds.ok THEN SelectSeq(creds.val, advertises) ELSE << >>
    IN  IF capable # << >>
        THEN Issue("primary", call, request, capable, 1, << >>, TRUE, log)
        ELSE Finish(Raise("ModelNotFound", << request.model >>), log)

\* __run_with_fallback(executable, model) of a public call, up to its first
\* attempt.
StartPrimary(call, request, log) ==
    LET creds == get_providers_for_model(request.model)
    IN  IF creds.ok
        THEN Issue("primary", call, request, creds.val, 1, << >>, TRUE, log)
        ELSE Finish(creds, log)

\* Mutant: agent_run_stream sends the primary request before it returns.
AfterPreprocess_eager(o, name, out, kw, log) ==
    /\ preprocessed' = [returned |-> TRUE, messages |-> out]
    /\ StartPrimary(o, AgentRequest(name, out, CallerTools, kw), log)

\* __preprocess_messages has returned `out` to agent_run or agent_run_stream.
AfterPreprocess(o, name, out, kw, log) ==
    /\ preprocessed' = [returned |-> TRUE, messages |-> out]
    /\ IF o = "agent_run"
       THEN StartPrimary("agent_run",
                         AgentRequest(name, out, CallerTools, kw), log)
       ELSE /\ pc' = "returned"
            /\ sent' = log
            /\ UNCHANGED << fb, result >>

\* Preprocessing runs on from where `plan` says it stands.
Resume(plan, o, name, msgs, kw, log) ==
    /\ pre' = plan.pre
    /\ CASE plan.at = "return" -> AfterPreprocess(o, name, plan.out, kw, log)
         [] plan.at = "raise" ->
              /\ Finish([ok |-> FALSE, val |-> plan.err], log)
              /\ UNCHANGED preprocessed
         [] plan.at = "await" ->
              LET p == plan.pre
                  name_k == p.models[p.model_i].name
              IN  /\ Issue("transform", "agent_run",
                           TransformerRequest(msgs[p.msg_i], name_k, p.system),
                           get_providers_for_model(name_k).val, 1, << >>, TRUE, log)
                  /\ UNCHANGED preprocessed

NoStream == UNCHANGED << stream, produced, delivered >>
NoFailure == UNCHANGED failures

\* ------------------------------------------------- 4.4 public operations
agent_run(name, msgs, force, kw) ==
    /\ pc = "idle"
    /\ op' = "agent_run" /\ model' = name /\ messages' = msgs
    /\ force_binary_transformation' = force
    /\ gen_config' = kw
    /\ Resume(preprocess_messages(msgs, name, force), "agent_run", name, msgs, kw, sent)
    /\ NoStream /\ NoFailure
    /\ UNCHANGED client_state

\* Mutant: agent_run_stream returns the stream and the caller's list at once
\* and leaves the preprocessing undone.
agent_run_stream_lazy(name, msgs, force, kw) ==
    /\ pc = "idle"
    /\ op' = "agent_run_stream" /\ model' = name /\ messages' = msgs
    /\ force_binary_transformation' = force
    /\ gen_config' = kw
    /\ pc' = "returned"
    /\ preprocessed' = [returned |-> TRUE, messages |-> msgs]
    /\ NoStream /\ NoFailure
    /\ UNCHANGED << client_state, pre, fb, sent, result >>

agent_run_stream(name, msgs, force, kw) ==
    /\ pc = "idle"
    /\ op' = "agent_run_stream" /\ model' = name /\ messages' = msgs
    /\ force_binary_transformation' = force
    /\ gen_config' = kw
    /\ Resume(preprocess_messages(msgs, name, force), "agent_run_stream", name, msgs, kw,
              sent)
    /\ NoStream /\ NoFailure
    /\ UNCHANGED client_state

audio_speak(name) ==
    /\ pc = "idle"
    /\ op' = "audio_speak" /\ model' = name
    /\ StartPrimary("audio_speak", SpeakRequest(name), sent)
    /\ NoStream /\ NoFailure
    /\ UNCHANGED << client_state, messages, force_binary_transformation, gen_config,
                    pre, preprocessed >>

audio_transcribe(name) ==
    /\ pc = "idle"
    /\ op' = "audio_transcribe" /\ model' = name
    /\ StartPrimary("audio_transcribe", SpeakRequest(name), sent)
    /\ NoStream /\ NoFailure
    /\ UNCHANGED << client_state, messages, force_binary_transformation, gen_config,
                    pre, preprocessed >>

\* An async generator function: the call runs none of its body.
audio_speak_stream(name) ==
    /\ pc = "idle"
    /\ op' = "audio_speak_stream" /\ model' = name
    /\ pc' = "returned"
    /\ NoStream /\ NoFailure
    /\ UNCHANGED << client_state, messages, force_binary_transformation, gen_config,
                    pre, preprocessed, fb, sent, result >>

\* -------------------------------------- the transport answers an attempt
\* Mutant: a successful attempt of the public call does not return; the loop
\* goes on to the next candidate.
Returned_continue(output, log) ==
    IF fb.frame = "primary" /\ fb.cred_i < Len(fb.creds)
    THEN /\ Issue(fb.frame, fb.call, fb.request, fb.creds, fb.cred_i + 1,
                  fb.errors, FALSE, log)
         /\ UNCHANGED << pre, preprocessed >>
    ELSE IF fb.frame = "primary"
    THEN /\ Finish(Return([response |-> output, messages |-> preprocessed.messages]), log)
         /\ UNCHANGED << pre, preprocessed >>
    ELSE Resume(binaries_to_text(messages, pre.msg_i + 1,
                                 Append(pre.out,
                                        TransformedMessage(messages[pre.msg_i], output)),
                                 pre.primary_model),
                op, model, messages, gen_config, log)

\* `return await executable(cred)` with the awaited call returning: the value
\* goes to the caller of __run_with_fallback.
Returned(output, log) ==
    IF fb.frame = "primary"
    THEN /\ Finish(Return([response |-> output, messages |-> preprocessed.messages]), log)
         /\ UNCHANGED << pre, preprocessed >>
    ELSE \* __binaries_to_text appends the TextMessage and loops on
         Resume(binaries_to_text(messages, pre.msg_i + 1,
                                 Append(pre.out,
                                        TransformedMessage(messages[pre.msg_i], output)),
                                 pre.primary_model),
                op, model, messages, gen_config, log)

AttemptSucceeds ==
    /\ pc = "await"
    /\ Returned(Output(fb.call, fb.creds[fb.cred_i], fb.request), Answered("ok"))
    /\ NoStream /\ NoFailure
    /\ UNCHANGED << client_state, inputs >>

\* Mutant: the failed candidate is tried again.
NextCandidate_same(i) == i

\* for cred in creds: the candidate after creds[i].
NextCandidate(i) == i + 1

\* Mutant: when every candidate model has failed, the binary message is
\* replaced by an empty text message and the conversion goes on.
Raised_substitute(e, log) ==
    LET errs == RecordError(fb.errors, fb.request.model, e)
    IN  IF fb.cred_i < Len(fb.creds)
        THEN /\ Issue(fb.frame, fb.call, fb.request, fb.creds,
                      NextCandidate(fb.cred_i), errs, FALSE, log)
             /\ UNCHANGED << pre, preprocessed >>
        ELSE IF fb.frame = "primary"
        THEN /\ Finish([ok |-> FALSE, val |-> Exhausted(errs)], log)
             /\ UNCHANGED << pre, preprocessed >>
        ELSE LET t_errs == RecordError(pre.errors, pre.models[pre.model_i].name,
                                       Exhausted(errs))
                 nm == NextModel(pre.models, pre.model_i + 1, t_errs)
                 p == [pre EXCEPT !.model_i = nm.k, !.errors = nm.errors]
             IN  IF nm.k > Len(pre.models)
                 THEN Resume(binaries_to_text(messages, pre.msg_i + 1,
                                              Append(pre.out,
                                                     TransformedMessage(messages[pre.msg_i],
                                                                        << >>)),
                                              pre.primary_model),
                             op, model, messages, gen_config, log)
                 ELSE Resume(Plan("await", p, << >>, NoResult.val),
                             op, model, messages, gen_config, log)

\* `except Exception as e` of __run_with_fallback with the awaited call raising
\* e: the error is recorded and the loop goes on; past the last candidate the
\* aggregate goes to the caller of __run_with_fallback.
Raised(e, log) ==
    LET errs == RecordError(fb.errors, fb.request.model, e)
    IN  IF fb.cred_i < Len(fb.creds)
        THEN /\ Issue(fb.frame, fb.call, fb.request, fb.creds,
                      NextCandidate(fb.cred_i), errs, FALSE, log)
             /\ UNCHANGED << pre, preprocessed >>
        ELSE IF fb.frame = "primary"
        THEN /\ Finish([ok |-> FALSE, val |-> Exhausted(errs)], log)
             /\ UNCHANGED << pre, preprocessed >>
        ELSE \* caught by __run_binary_transformer_with_fallback
             LET t_errs == RecordError(pre.errors, pre.models[pre.model_i].name,
                                       Exhausted(errs))
                 nm == NextModel(pre.models, pre.model_i + 1, t_errs)
                 p == [pre EXCEPT !.model_i = nm.k, !.errors = nm.errors]
             IN  IF nm.k > Len(pre.models)
                 THEN Resume(Plan("raise", p, << >>, TransformerExhausted(nm.errors)),
                             op, model, messages, gen_config, log)
                 ELSE Resume(Plan("await", p, << >>, NoResult.val),
                             op, model, messages, gen_config, log)

AttemptFails ==
    /\ pc = "await"
    /\ failures < MaxFailures
    /\ failures' = failures + 1
    /\ Raised(TransportError(fb.creds[fb.cred_i]), Answered("failed"))
    /\ NoStream
    /\ UNCHANGED << client_state, inputs >>

\* asyncio.CancelledError, raised in the await of the attempt in flight when the
\* caller cancels the task, and GeneratorExit, raised at the wrapper's yield
\* when the consumer closes the generator: both are BaseException and no
\* Exception.
CancelledError == [kind |-> "CancelledError", detail |-> << >>]
GeneratorExit == [kind |-> "GeneratorExit", detail |-> << >>]

\* Mutant: the cancellation is caught like a failure of the attempt.
Cancelled_as_failure(e, log) == Raised(e, log)

\* `except Exception` of __run_with_fallback and of
\* __run_binary_transformer_with_fallback with the awaited call raising a
\* BaseException that is no Exception: no handler catches it, and it leaves
\* the public call.
Cancelled(e, log) ==
    /\ Finish([ok |-> FALSE, val |-> e], log)
    /\ UNCHANGED << pre, preprocessed >>

\* The caller cancels the task that awaits a non-streaming attempt.
TaskCancelled ==
    /\ pc = "await"
    /\ Cancelled(CancelledError, Answered("cancelled"))
    /\ NoStream /\ NoFailure
    /\ UNCHANGED << client_state, inputs >>

\* ----------------------------------------------------------- streaming
\* The raw client's call and request behind a streaming public operation.
StreamCall == IF op = "agent_run_stream" THEN "agent_run_stream" ELSE "audio_speak_stream"
\* Mutant: the streaming request carries the caller's list.
StreamRequest_original ==
    IF op = "agent_run_stream"
    THEN AgentRequest(model, messages, CallerTools, gen_config)
    ELSE SpeakRequest(model)

StreamRequest ==
    IF op = "agent_run_stream"
    THEN AgentRequest(model, preprocessed.messages, CallerTools, gen_config)
    ELSE SpeakRequest(model)

\* The raw client's generator for creds[i] starts: `async with
\* self.client.stream(...)` reaches the transport.
OpenStream(creds, i, errs, fresh, log) ==
    /\ pc' = "opening"
    /\ stream' = "opening"
    /\ fb' = [frame |-> "primary", call |-> StreamCall, request |-> StreamRequest,
              creds |-> creds, cred_i |-> i, errors |-> errs]
    /\ sent' = Append(log, [call |-> StreamCall, request |-> StreamRequest,
                            cred |-> creds[i], frame |-> "primary",
                            run |-> IF fresh THEN LastRun(log) + 1 ELSE LastRun(log),
                            outcome |-> "pending"])
    /\ UNCHANGED result

\* The consumer asks for the first chunk: the body of
\* __agent_run_stream_with_fallback (or __audio_speak_stream_with_fallback)
\* starts.  __run_with_fallback(executable, model, stream=True) runs
\* `return executable(cred)` for the first candidate: that builds the raw
\* client's async generator and runs none of its body, so it cannot raise, and
\* the loop returns the first candidate's generator.  `async for` then starts it.
StreamStart ==
    /\ pc = "returned"
    /\ LET creds == get_providers_for_model(StreamRequest.model)
       IN  IF ~creds.ok
           THEN /\ Finish(creds, sent)
                /\ UNCHANGED stream
           ELSE OpenStream(creds.val, 1, << >>, TRUE, sent)
    /\ NoFailure
    /\ UNCHANGED << client_state, inputs, pre, preprocessed, produced, delivered >>

\* The transport answers 200: the raw generator starts reading.
StreamOpens ==
    /\ pc = "opening"
    /\ pc' = "streaming"
    /\ stream' = "open"
    /\ sent' = Answered("open")
    /\ UNCHANGED << client_state, inputs, pre, fb, result, preprocessed,
                    produced, delivered, failures >>

\* Mutant: an exception of the raw generator makes the wrapper open the next
\* candidate's stream.
StreamRaises_fallback(e, log) ==
    IF fb.cred_i < Len(fb.creds)
    THEN OpenStream(fb.creds, fb.cred_i + 1,
                    RecordError(fb.errors, fb.request.model, e), FALSE, log)
    ELSE /\ Finish([ok |-> FALSE, val |-> e], log)
         /\ stream' = "failed"

\* What the wrapper does with an exception of the raw generator (the transport
\* answered non-200, the connection failed, or a read failed): its `async for`
\* stands outside every try, so the exception reaches the consumer.
StreamRaises(e, log) ==
    /\ Finish([ok |-> FALSE, val |-> e], log)
    /\ stream' = "failed"

StreamOpenFails ==
    /\ pc = "opening"
    /\ StreamRaises(TransportError(fb.creds[fb.cred_i]), Answered("refused"))
    /\ UNCHANGED << client_state, inputs, pre, preprocessed, produced, delivered, failures >>

\* Mutant: the wrapper yields every chunk twice.
Forward_twice(out, chunk) == out \o << chunk, chunk >>

\* `async for chunk in response: yield chunk`: the wrapper hands the chunk of
\* the raw generator on as it is.
Forward(out, chunk) == Append(out, chunk)

\* The transport yields a chunk; the wrapper yields it on to the consumer.
StreamChunk ==
    /\ pc = "streaming"
    /\ Len(produced) < MaxChunks
    /\ LET chunk == << "chunk", fb.creds[fb.cred_i], Len(produced) + 1 >>
       IN  /\ produced' = Append(produced, chunk)
           /\ delivered' = Forward(delivered, chunk)
    /\ UNCHANGED << client_state, inputs, pc, pre, fb, sent, result, preprocessed,
                    stream, failures >>

EndOfStream == Return([response |-> << "end of stream" >>, messages |-> << >>])

\* Mutant: the wrapper keeps waiting after the raw generator is exhausted.
StreamEnds_hang(log) ==
    /\ pc' = "streaming"
    /\ sent' = log
    /\ UNCHANGED << fb, result >>

\* What the wrapper does when the raw generator is exhausted: its `async for`
\* ends and so does the wrapper.
StreamEnds(log) ==
    /\ Finish(EndOfStream, log)

\* The transport closes its stream.
StreamCloses ==
    /\ pc = "streaming"
    /\ stream' = "closed"
    /\ StreamEnds(Answered("closed"))
    /\ UNCHANGED << client_state, inputs, pre, preprocessed, produced, delivered, failures >>

\* Reading the next chunk fails after the stream was opened.
StreamReadFails ==
    /\ pc = "streaming"
    /\ StreamRaises(TransportError(fb.creds[fb.cred_i]), Answered("broken"))
    /\ UNCHANGED << client_state, inputs, pre, preprocessed, produced, delivered, failures >>

\* The consumer gives the stream up: it cancels the task that awaits the next
\* chunk (or the opening of the stream), or it closes the wrapper generator
\* after a chunk.  The wrapper has no handler, so the exception ends it.
ConsumerLeaves ==
    /\ pc \in {"opening", "streaming"}
    /\ \E e \in {CancelledError, GeneratorExit} :
          /\ e = GeneratorExit => (pc = "streaming" /\ delivered # << >>)
          /\ StreamRaises(e, Answered("abandoned"))
    /\ UNCHANGED << client_state, inputs, pre, preprocessed, produced, delivered, failures >>

\* The consumer iterates the wrapper generator again after it has ended with
\* the transport's stream: a finished async generator raises
\* StopAsyncIteration at once and runs no code of its body.
IterateAgain ==
    /\ pc = "done"
    /\ stream = "closed"
    /\ stream' = "exhausted"
    /\ result' = EndOfStream
    /\ UNCHANGED << client_state, inputs, pc, pre, fb, sent, preprocessed,
                    produced, delivered, failures >>

Init ==
    /\ providers \in ProviderLists
    /\ op = "none" /\ model = "" /\ messages = << >>
    /\ force_binary_transformation = FALSE
    /\ gen_config = NoKeywords
    /\ pc = "idle"
    /\ pre = NoPre /\ fb = NoFb /\ sent = << >>
    /\ result = NoResult /\ preprocessed = NotPreprocessed
    /\ stream = "none" /\ produced = << >> /\ delivered = << >>
    /\ failures = 0
    /\ clients = << providers >> /\ self = 1
    /\ cache = EmptyCache /\ calls = << >> /\ heap = NoHeap

\* A caller calls agent_run, or agent_run_stream, on a client that runs no
\* call, with any model name, message list, force flag and keyword arguments;
\* model_capabilities is passed by callers that leave the force flag off.
CallAgentRun ==
    /\ pc = "idle"
    /\ \E name \in ModelNames, msgs \in MessageLists, force \in BOOLEAN,
            kw \in GenConfigs :
          /\ force => kw = NoKeywords
          /\ agent_run(name, msgs, force, kw)

CallAgentRunStream ==
    /\ pc = "idle"
    /\ \E name \in ModelNames, msgs \in MessageLists, force \in BOOLEAN,
            kw \in GenConfigs :
          /\ force => kw = NoKeywords
          /\ agent_run_stream(name, msgs, force, kw)

Next ==
    \/ CallAgentRun
    \/ CallAgentRunStream
    \/ \E name \in ModelNames : audio_speak(name)
    \/ \E name \in ModelNames : audio_speak_stream(name)
    \/ \E name \in ModelNames : audio_transcribe(name)
    \/ AttemptSucceeds
    \/ AttemptFails
    \/ TaskCancelled
    \/ StreamStart
    \/ StreamOpens
    \/ StreamOpenFails
    \/ StreamChunk
    \/ StreamCloses
    \/ StreamReadFails
    \/ ConsumerLeaves
    \/ IterateAgain

Spec == Init /\ [][Next]_vars

\* ------------------------------------------------ the registry on its own
\* The two lookups as operations of their own, over provider lists that also
\* hold providers with no model, with one name listed twice and with several
\* names.
RegistryModelLists ==
    ModelLists \cup
    { << >>,
      << Model("M", {}), Model("M", {IMAGE_AGENT}) >>,
      << Model("N", {AUDIO_AGENT}), Model("M", {IMAGE_AGENT}), Model("M", {AUDIO_AGENT}) >>,
      << Model("N", {}), Model("M", {VIDEO_AGENT}) >> }
RegistryProviderLists ==
    UNION { { [i \in 1..n |-> ProviderConfig(i, ml[i])] : ml \in [1..n -> RegistryModelLists] }
            : n \in 0..MaxProviders }
LookupNames == ModelNames \cup {"X"}

LookupProviders(name) ==
    /\ pc = "idle"
    /\ op' = "get_providers_for_model" /\ model' = name
    /\ pc' = "done"
    /\ result' = get_providers_for_model(name)
    /\ UNCHANGED << client_state, messages, force_binary_transformation, gen_config,
                    pre, fb, sent, preprocessed, stream, produced, delivered, failures >>

LookupCapabilities(name) ==
    /\ pc = "idle"
    /\ op' = "get_model_capabilities" /\ model' = name
    /\ pc' = "done"
    /\ result' = get_model_capabilities(name)
    /\ UNCHANGED << client_state, messages, force_binary_transformation, gen_config,
                    pre, fb, sent, preprocessed, stream, produced, delivered, failures >>

RegistryInit ==
    /\ providers \in RegistryProviderLists
    /\ op = "none" /\ model = "" /\ messages = << >>
    /\ force_binary_transformation = FALSE
    /\ gen_config = NoKeywords
    /\ pc = "idle"
    /\ pre = NoPre /\ fb = NoFb /\ sent = << >>
    /\ result = NoResult /\ preprocessed = NotPreprocessed
    /\ stream = "none" /\ produced = << >> /\ delivered = << >>
    /\ failures = 0
    /\ clients = << providers >> /\ self = 1
    /\ cache = EmptyCache /\ calls = << >> /\ heap = NoHeap

RegistryNext ==
    \/ \E name \in LookupNames : LookupProviders(name)
    \/ \E name \in LookupNames : LookupCapabilities(name)

SpecRegistry == RegistryInit /\ [][RegistryNext]_vars

\* ------------------------------------------- the lookups behind their cache
\* Two clients, constructed with these provider lists, and any sequence of
\* lookups on them: names listed, names not listed, and more keys than the
\* cache holds.
CacheNames == {"M", "N", "O", "X"}
CacheProviderLists ==
    { << ProviderConfig(1, << Model("M", {}), Model("N", {IMAGE_AGENT}) >>) >>,
      << ProviderConfig(2, << Model("M", {IMAGE_AGENT}) >>),
         ProviderConfig(3, << Model("M", {}), Model("O", {AUDIO_AGENT}) >>) >> }
CacheClients == [1..2 -> CacheProviderLists]

\* client.__get_providers_for_model(name), through its wrapper.
CachedProviders(client, name) ==
    /\ pc \in {"idle", "done"}
    /\ self' = client /\ providers' = clients[client]
    /\ op' = "get_providers_for_model" /\ model' = name
    /\ pc' = "done"
    /\ LET r == lru_cache(cache.providers_for_model, make_key(client, name),
                          get_providers_for_model(name)')
       IN  /\ cache' = [cache EXCEPT !.providers_for_model = r.entries, !.last = r.how]
           /\ result' = r.out
    /\ UNCHANGED << clients, calls, heap, messages, force_binary_transformation, gen_config,
                    pre, fb, sent, preprocessed, stream, produced, delivered, failures >>

\* client.__get_model_capabilities(name), through its wrapper.
CachedCapabilities(client, name) ==
    /\ pc \in {"idle", "done"}
    /\ self' = client /\ providers' = clients[client]
    /\ op' = "get_model_capabilities" /\ model' = name
    /\ pc' = "done"
    /\ LET r == lru_cache(cache.model_capabilities, make_key(client, name),
                          get_model_capabilities(name)')
       IN  /\ cache' = [cache EXCEPT !.model_capabilities = r.entries, !.last = r.how]
           /\ result' = r.out
    /\ UNCHANGED << clients, calls, heap, messages, force_binary_transformation, gen_config,
                    pre, fb, sent, preprocessed, stream, produced, delivered, failures >>

CacheInit ==
    /\ clients \in CacheClients
    /\ self = 1 /\ providers = clients[1]
    /\ cache = EmptyCache /\ calls = << >> /\ heap = NoHeap
    /\ op = "none" /\ model = "" /\ messages = << >>
    /\ force_binary_transformation = FALSE
    /\ gen_config = NoKeywords
    /\ pc = "idle"
    /\ pre = NoPre /\ fb = NoFb /\ sent = << >>
    /\ result = NoResult /\ preprocessed = NotPreprocessed
    /\ stream = "none" /\ produced = << >> /\ delivered = << >>
    /\ failures = 0

CacheNext ==
    \/ \E client \in 1..2, name \in CacheNames : CachedProviders(client, name)
    \/ \E client \in 1..2, name \in CacheNames : CachedCapabilities(client, name)

SpecCache == CacheInit /\ [][CacheNext]_vars

\* --------------------------------------------- interleaved calls on a client
\* Each public call is a coroutine with locals of its own; the calls of one
\* client share self.providers and the two lru_cache wrappers, and a call runs
\* without interruption from one await to the next.  The calls here are
\* audio_speak and agent_run with one text message, which the preprocessing
\* returns as it is after the capability lookup.
ConcurrentOps == {"audio_speak", "agent_run"}
ConcurrentProviderLists ==
    { << ProviderConfig(1, << Model("M", {}) >>),
         ProviderConfig(2, << Model("M", {}), Model("N", {IMAGE_AGENT}) >>) >>,
      << ProviderConfig(1, << Model("N", {}) >>) >> }
ConcurrentMessages == << TextMessage(USER, << "hello" >>) >>

\* The request a call sends to every candidate.
CallRequest(o, name) ==
    IF o = "agent_run"
    THEN AgentRequest(name, ConcurrentMessages, CallerTools, NoKeywords)
    ELSE SpeakRequest(name)

\* A call that has not started: the locals of its __run_with_fallback, the
\* attempts it has made with what the transport answered, and its result.
NoCall ==
    [op |-> "none", model |-> "", pc |-> "idle", creds |-> << >>, cred_i |-> 0,
     errors |-> << >>, attempts |-> << >>, result |-> NoResult]

\* Mutant: the error list is an attribute of the client, which all of its calls
\* append to.
ErrorsOf_shared(c) ==
    LET RECURSIVE all(_)
        all(i) == IF i > Len(calls) THEN << >> ELSE calls[i].errors \o all(i + 1)
    IN  all(1)

\* errors = []: a local of the call's own __run_with_fallback.
ErrorsOf(c) == calls[c].errors

\* The call starts and runs up to its first await: agent_run looks the
\* capabilities of the model up and, the message being text, keeps the list;
\* then __run_with_fallback looks the providers up and awaits the first
\* candidate.  Both lookups go through the shared caches.
CallBegins(c, o, name) ==
    /\ calls[c].pc = "idle"
    /\ LET caps == IF o = "agent_run"
                   THEN lru_cache(cache.model_capabilities, make_key(self, name),
                                  get_model_capabilities(name))
                   ELSE [entries |-> cache.model_capabilities,
                         out |-> Return({}), how |-> cache.last]
           creds == lru_cache(cache.providers_for_model, make_key(self, name),
                              get_providers_for_model(name))
           started == [NoCall EXCEPT !.op = o, !.model = name]
       IN  IF ~caps.out.ok
           THEN /\ calls' = [calls EXCEPT ![c] =
                               [started EXCEPT !.pc = "done", !.result = caps.out]]
                /\ cache' = [cache EXCEPT !.model_capabilities = caps.entries,
                                          !.last = caps.how]
           ELSE /\ cache' = [model_capabilities |-> caps.entries,
                            providers_for_model |-> creds.entries,
                            last |-> creds.how]
                /\ IF ~creds.out.ok
                   THEN calls' = [calls EXCEPT ![c] =
                                    [started EXCEPT !.pc = "done", !.result = creds.out]]
                   ELSE calls' = [calls EXCEPT ![c] =
                                    [started EXCEPT
                                       !.pc = "await",
                                       !.creds = creds.out.val,
                                       !.cred_i = 1,
                                       !.attempts = << [cred |-> creds.out.val[1],
                                                        outcome |-> "pending"] >>]]
    /\ UNCHANGED << providers, clients, self, heap, inputs, pc, pre, fb, sent, result,
                    preprocessed, stream, produced, delivered, failures >>

\* The transport answers the attempt of call c: `return await executable(cred)`.
CallReturns(c) ==
    /\ calls[c].pc = "await"
    /\ LET call == calls[c]
           cred == call.creds[call.cred_i]
           request == CallRequest(call.op, call.model)
       IN  calls' = [calls EXCEPT ![c] =
                       [call EXCEPT
                          !.pc = "done",
                          !.attempts[Len(call.attempts)].outcome = "ok",
                          !.result = Return([response |-> Output(call.op, cred, request),
                                             messages |-> request.messages])]]
    /\ UNCHANGED << providers, clients, self, cache, heap, inputs, pc, pre, fb, sent, result,
                    preprocessed, stream, produced, delivered, failures >>

\* The attempt of call c raises: `except Exception` records the error and the
\* loop goes on, or the aggregate error is raised past the last candidate.
CallRaises(c) ==
    /\ calls[c].pc = "await"
    /\ LET call == calls[c]
           cred == call.creds[call.cred_i]
           errs == RecordError(ErrorsOf(c), call.model, TransportError(cred))
           failed == [call EXCEPT !.attempts[Len(call.attempts)].outcome = "failed",
                                  !.errors = errs]
       IN  IF call.cred_i < Len(call.creds)
           THEN calls' = [calls EXCEPT ![c] =
                            [failed EXCEPT
                               !.cred_i = NextCandidate(call.cred_i),
                               !.attempts = Append(failed.attempts,
                                                   [cred |-> call.creds[NextCandidate(call.cred_i)],
                                                    outcome |-> "pending"])]]
           ELSE calls' = [calls EXCEPT ![c] =
                            [failed EXCEPT !.pc = "done",
                                           !.result = [ok |-> FALSE, val |-> Exhausted(errs)]]]
    /\ UNCHANGED << providers, clients, self, cache, heap, inputs, pc, pre, fb, sent, result,
                    preprocessed, stream, produced, delivered, failures >>

ConcurrentInit ==
    /\ providers \in ConcurrentProviderLists
    /\ clients = << providers >> /\ self = 1
    /\ cache = EmptyCache
    /\ calls = [c \in 1..MaxCalls |-> NoCall] /\ heap = NoHeap
    /\ op = "none" /\ model = "" /\ messages = << >>
    /\ force_binary_transformation = FALSE
    /\ gen_config = NoKeywords
    /\ pc = "idle"
    /\ pre = NoPre /\ fb = NoFb /\ sent = << >>
    /\ result = NoResult /\ preprocessed = NotPreprocessed
    /\ stream = "none" /\ produced = << >> /\ delivered = << >>
    /\ failures = 0

ConcurrentNext ==
    \/ \E c \in DOMAIN calls, o \in ConcurrentOps, name \in LookupNames :
          CallBegins(c, o, name)
    \/ \E c \in DOMAIN calls : CallReturns(c)
    \/ \E c \in DOMAIN calls : CallRaises(c)

SpecConcurrent == ConcurrentInit /\ [][ConcurrentNext]_vars

\* ------------------------------------------- non-streaming calls, scheduled
\* The non-streaming public calls with a transport that answers every call it
\* is sent: an attempt in flight returns or raises (or the caller cancels the
\* task), so the step that answers it is taken eventually.  The provider lists
\* hold a model whose first descriptor lacks the capability that a later one
\* has, so that a conversion's candidate is a model the preprocessing would
\* convert for.
TerminationProviderLists ==
    { << ProviderConfig(1, << Model("M", {}) >>),
         ProviderConfig(2, << Model("M", {IMAGE_AGENT}) >>) >>,
      << ProviderConfig(1, << Model("M", {}) >>),
         ProviderConfig(2, << Model("N", {IMAGE_AGENT, AUDIO_AGENT}) >>) >>,
      << ProviderConfig(1, << Model("N", {IMAGE_AGENT, AUDIO_AGENT}) >>) >> }
TerminationMessageLists ==
    { << TextMessage(SYSTEM, <<"hello">>) >>,
      << from_bytes(<<"png-bytes">>, <<"image", "/", "png">>, USER) >>,
      << from_bytes(<<"png-bytes">>, <<"image", "/", "png">>, USER),
         from_bytes(<<"wav-bytes">>, <<"audio", "/", "wav">>, MODEL) >>,
      << from_bytes(<<"pdf-bytes">>, <<"application", "/", "pdf">>, USER) >> }

TerminationInit ==
    /\ providers \in TerminationProviderLists
    /\ clients = << providers >> /\ self = 1
    /\ cache = EmptyCache /\ calls = << >> /\ heap = NoHeap
    /\ op = "none" /\ model = "" /\ messages = << >>
    /\ force_binary_transformation = FALSE
    /\ gen_config = NoKeywords
    /\ pc = "idle"
    /\ pre = NoPre /\ fb = NoFb /\ sent = << >>
    /\ result = NoResult /\ preprocessed = NotPreprocessed
    /\ stream = "none" /\ produced = << >> /\ delivered = << >>
    /\ failures = 0

CallAgentRunListed ==
    /\ pc = "idle"
    /\ \E name \in ModelNames, msgs \in TerminationMessageLists, force \in BOOLEAN :
          agent_run(name, msgs, force, NoKeywords)

NonStreamNext ==
    \/ CallAgentRunListed
    \/ \E name \in ModelNames : audio_speak(name)
    \/ \E name \in ModelNames : audio_transcribe(name)
    \/ AttemptSucceeds
    \/ AttemptFails
    \/ TaskCancelled

SpecTerminates ==
    /\ TerminationInit
    /\ [][NonStreamNext]_vars
    /\ WF_vars(AttemptSucceeds \/ AttemptFails)

\* ------------------------------------- preprocessing, object by object
\* __preprocess_messages with the lists and the messages as the objects they
\* are: heap.objects[id] is the message object id, heap.lists[l] the ids that
\* the list object l holds; the caller's list is the list 1 and holds the
\* objects 1..Len(messages).  heap.acc is __messages, heap.out the list returned.
ObjectProviderLists ==
    { << ProviderConfig(1, << Model("M", {}) >>) >>,
      << ProviderConfig(1, << Model("M", {IMAGE_AGENT}) >>) >>,
      << ProviderConfig(1, << Model("N", {IMAGE_AGENT, AUDIO_AGENT}) >>) >> }

\* Mutant: the converted message is also written over the binary message in
\* the caller's list.
Store_in_place(lists, acc, i, id) ==
    [lists EXCEPT ![1][i] = id, ![acc] = Append(@, id)]

\* __messages.append(...): the object goes to the end of the list built.
Store(lists, acc, i, id) == [lists EXCEPT ![acc] = Append(@, id)]

\* The loop of __binaries_to_text from the heap.i-th message of the caller's
\* list on, up to the next await: a message that is no BinaryMessage is
\* appended as the object it is; a BinaryMessage is handed to __binary_to_text,
\* which raises or awaits a sub-request.
RECURSIVE BinariesLoop(_)
BinariesLoop(h) ==
    IF h.i > Len(h.lists[1]) THEN [h EXCEPT !.pc = "returned", !.out = h.acc]
    ELSE LET id == h.lists[1][h.i]
         IN  IF ~IsBinary(h.objects[id])
             THEN BinariesLoop([h EXCEPT !.lists = Store(h.lists, h.acc, h.i, id),
                                         !.i = h.i + 1])
             ELSE IF binary_to_text(h.objects[id], h.primary_model).ok
             THEN [h EXCEPT !.pc = "await"]
             ELSE [h EXCEPT !.pc = "raised"]

\* __preprocess_messages(messages, model, force_binary_transformation), up to
\* its first await.
PreprocessCall(name, msgs, force) ==
    /\ heap.pc = "idle"
    /\ op' = "preprocess_messages" /\ model' = name /\ messages' = msgs
    /\ force_binary_transformation' = force
    /\ LET h == [NoHeap EXCEPT !.objects = msgs,
                               !.lists = << [k \in 1..Len(msgs) |-> k] >>,
                               !.i = 1]
           model_capabilities == get_model_capabilities(name)
           required == required_capabilities(msgs)
           \* __messages = []
           built == [h EXCEPT !.lists = Append(h.lists, << >>), !.acc = 2,
                              !.primary_model = Model(name, model_capabilities.val)]
       IN  heap' = IF ~model_capabilities.ok THEN [h EXCEPT !.pc = "raised"]
                   ELSE IF force THEN BinariesLoop(built)
                   ELSE IF ~required.ok THEN [h EXCEPT !.pc = "raised"]
                   ELSE IF NeedsTransformation(required.val, model_capabilities.val)
                   THEN BinariesLoop(built)
                   ELSE [h EXCEPT !.pc = "returned", !.out = 1]
    /\ UNCHANGED << providers, clients, self, cache, calls, gen_config, pc, pre, fb,
                    sent, result, preprocessed, stream, produced, delivered, failures >>

\* The sub-requests for the binary message return a text: a new TextMessage is
\* built and appended, and the loop goes on.
ConversionReturns ==
    /\ heap.pc = "await"
    /\ LET binary_message == heap.objects[heap.lists[1][heap.i]]
           id == Len(heap.objects) + 1
       IN  heap' = BinariesLoop(
                     [heap EXCEPT
                        !.objects = Append(@, TransformedMessage(binary_message,
                                                                 << "text" >>)),
                        !.lists = Store(heap.lists, heap.acc, heap.i, id),
                        !.i = heap.i + 1])
    /\ UNCHANGED << providers, clients, self, cache, calls, inputs, pc, pre, fb,
                    sent, result, preprocessed, stream, produced, delivered, failures >>

\* Every candidate model failed: __run_binary_transformer_with_fallback raises
\* and the exception leaves __preprocess_messages.
ConversionRaises ==
    /\ heap.pc = "await"
    /\ heap' = [heap EXCEPT !.pc = "raised"]
    /\ UNCHANGED << providers, clients, self, cache, calls, inputs, pc, pre, fb,
                    sent, result, preprocessed, stream, produced, delivered, failures >>

ObjectInit ==
    /\ providers \in ObjectProviderLists
    /\ clients = << providers >> /\ self = 1
    /\ cache = EmptyCache /\ calls = << >> /\ heap = NoHeap
    /\ op = "none" /\ model = "" /\ messages = << >>
    /\ force_binary_transformation = FALSE
    /\ gen_config = NoKeywords
    /\ pc = "idle"
    /\ pre = NoPre /\ fb = NoFb /\ sent = << >>
    /\ result = NoResult /\ preprocessed = NotPreprocessed
    /\ stream = "none" /\ produced = << >> /\ delivered = << >>
    /\ failures = 0

ObjectNext ==
    \/ \E name \in ModelNames, msgs \in MessageLists, force \in BOOLEAN :
          PreprocessCall(name, msgs, force)
    \/ ConversionReturns
    \/ ConversionRaises

SpecObjects == ObjectInit /\ [][ObjectNext]_vars

\* ------------------------------------------------ the audio operations
\* audio_speak, audio_transcribe and audio_speak_stream on providers whose
\* descriptors of a name advertise the speak or transcribe capability, some
\* other capability, or none.
AudioProviderLists ==
    { << ProviderConfig(1, << Model("M", {SPEAK}) >>),
         ProviderConfig(2, << Model("M", {}) >>) >>,
      << ProviderConfig(1, << Model("M", {IMAGE_AGENT}) >>),
         ProviderConfig(2, << Model("N", {TRANSCRIBE}) >>),
         ProviderConfig(3, << Model("M", {TRANSCRIBE}), Model("N", {}) >>) >>,
      << ProviderConfig(1, << Model("N", {}) >>) >> }

AudioInit ==
    /\ providers \in AudioProviderLists
    /\ clients = << providers >> /\ self = 1
    /\ cache = EmptyCache /\ calls = << >> /\ heap = NoHeap
    /\ op = "none" /\ model = "" /\ messages = << >>
    /\ force_binary_transformation = FALSE
    /\ gen_config = NoKeywords
    /\ pc = "idle"
    /\ pre = NoPre /\ fb = NoFb /\ sent = << >>
    /\ result = NoResult /\ preprocessed = NotPreprocessed
    /\ stream = "none" /\ produced = << >> /\ delivered = << >>
    /\ failures = 0

AudioNext ==
    \/ \E name \in ModelNames : audio_speak(name)
    \/ \E name \in ModelNames : audio_speak_stream(name)
    \/ \E name \in ModelNames : audio_transcribe(name)
    \/ AttemptSucceeds
    \/ AttemptFails
    \/ TaskCancelled
    \/ StreamStart
    \/ StreamOpens
    \/ StreamOpenFails
    \/ StreamChunk
    \/ StreamCloses
    \/ StreamReadFails
    \/ ConsumerLeaves
    \/ IterateAgain

SpecAudio == AudioInit /\ [][AudioNext]_vars

\* ------------------------------------------------------------- properties
\* The providers that list a model name, by their place in the registration
\* order, and the k-th of them.
Listing(name) ==
    { i \in DOMAIN providers :
        \E j \in DOMAIN providers[i].models : providers[i].models[j].name = name }
Candidate(name, k) ==
    SelectSeq([i \in DOMAIN providers |-> i], LAMBDA i : i \in Listing(name))[k]
\* The provider holding `cred`, and its place among the candidates for `name`.
ProviderOf(cred) == CHOOSE i \in DOMAIN providers : providers[i].creds = cred
PlaceOf(name, cred) ==
    Cardinality({ c \in Listing(name) : c <= ProviderOf(cred) })

NonStreamOps == {"agent_run", "audio_speak", "audio_transcribe"}
StreamOps == {"agent_run_stream", "audio_speak_stream"}
PublicOps == NonStreamOps \cup StreamOps
AgentOps == {"agent_run", "agent_run_stream"}

Runs == { sent[i].run : i \in DOMAIN sent }
RunEntries(r) == SelectSeq(sent, LAMBDA e : e.run = r)
PrimaryEntries == SelectSeq(sent, LAMBDA e : e.frame = "primary")

\* C1: a non-streaming fallback sequence (of a public call or of a
\* transformation sub-request) attempts the providers that list its model in
\* registration order, each at most once and each only after the one before it
\* failed, always with the same request; and a non-streaming public call that
\* succeeds returns the answer of the candidate attempted last, the first one
\* that succeeded.  The transport log only grows, so every attempt is the last
\* entry of the log when it is issued and until it is answered.
C1_FallbackOrder ==
    /\ (sent # << >> /\ sent[Len(sent)].call \in NonStreamOps) =>
         LET i == Len(sent)
             name == sent[i].request.model
             place == PlaceOf(name, sent[i].cred)
         IN  /\ ProviderOf(sent[i].cred) \in Listing(name)
             /\ IF i > 1 /\ sent[i - 1].run = sent[i].run
                THEN \* a later attempt of a run: the candidate after the one that failed
                     /\ sent[i - 1].outcome = "failed"
                     /\ sent[i].call = sent[i - 1].call
                     /\ sent[i].request = sent[i - 1].request
                     /\ place = PlaceOf(name, sent[i - 1].cred) + 1
                ELSE \* the first attempt of a run: the first candidate
                     place = 1
    /\ (op \in NonStreamOps /\ pc = "done" /\ result.ok) =>
         LET last == sent[Len(sent)]
         IN  /\ last.frame = "primary"
             /\ last.outcome = "ok"
             /\ result.val.response = Output(last.call, last.cred, last.request)

\* C1 witness: a public call whose first candidate failed and whose second
\* candidate's answer was returned.
C1_Witness ==
    /\ op = "audio_transcribe" /\ pc = "done" /\ result.ok
    /\ Len(sent) = 2
    /\ sent[1].outcome = "failed" /\ sent[1].cred = 1
    /\ sent[2].outcome = "ok" /\ sent[2].cred = 2

\* C2: once an attempt of a non-streaming public call has succeeded the call
\* is over and that attempt is the last transport call: the number of attempts
\* of the public call is the place of the succeeding candidate.
C2_EarlyReturn ==
    \A i \in DOMAIN sent :
        (sent[i].call \in NonStreamOps /\ sent[i].frame = "primary"
            /\ sent[i].outcome = "ok") =>
          /\ i = Len(sent)
          /\ pc = "done"
          /\ Len(PrimaryEntries) = PlaceOf(sent[i].request.model, sent[i].cred)

\* C2 witness: the first of two candidates succeeded and the second was never
\* attempted.
C2_Witness ==
    /\ op = "agent_run" /\ pc = "done" /\ result.ok
    /\ Cardinality(Listing(model)) = 2
    /\ Len(PrimaryEntries) = 1

\* C3: a non-streaming public call whose candidates all failed ends with the
\* aggregate error, whose list holds one entry per candidate in attempt order;
\* and no non-streaming public call ends with a bare transport error.
C3_Exhaustion ==
    (op \in NonStreamOps /\ pc = "done") =>
      /\ ~result.ok => result.val.kind # "TransportError"
      /\ (PrimaryEntries # << >>
            /\ \A k \in DOMAIN PrimaryEntries : PrimaryEntries[k].outcome = "failed") =>
           /\ ~result.ok
           /\ result.val.kind = "FallbackExhausted"
           /\ result.val.detail[1] = "executable"
           /\ LET errs == result.val.detail[2]
              IN  /\ Len(errs) = Cardinality(Listing(model))
                  /\ \A k \in DOMAIN errs :
                       /\ errs[k][1] = model
                       /\ errs[k][2] = TransportError(providers[Candidate(model, k)].creds)

\* C3 witness: both candidates of a public call failed.
C3_Witness ==
    /\ op = "audio_speak" /\ pc = "done" /\ ~result.ok
    /\ Len(PrimaryEntries) = 2
    /\ \A k \in DOMAIN PrimaryEntries : PrimaryEntries[k].outcome = "failed"

\* C4: when a candidate of a streaming call fails to establish its stream and
\* is not the last candidate, the next candidate is attempted.
C4_StreamFallbackAtOpen ==
    \A i \in DOMAIN sent :
        (sent[i].call \in StreamOps /\ sent[i].outcome = "refused"
            /\ PlaceOf(sent[i].request.model, sent[i].cred)
                 < Cardinality(Listing(sent[i].request.model))) =>
          /\ i < Len(sent)
          /\ sent[i + 1].call = sent[i].call
          /\ sent[i + 1].cred
               = providers[Candidate(sent[i].request.model,
                                     PlaceOf(sent[i].request.model, sent[i].cred) + 1)].creds

\* C5: a stream that was opened is the last transport call of its call, and a
\* failure while reading it reaches the consumer as it is.
C5_NoMidStreamFallback ==
    \A i \in DOMAIN sent :
        (sent[i].call \in StreamOps /\ sent[i].outcome \in {"open", "closed", "broken"}) =>
          /\ i = Len(sent)
          /\ sent[i].outcome = "broken" =>
               /\ pc = "done"
               /\ ~result.ok
               /\ result.val.kind = "TransportError"
               /\ result.val.detail = << sent[i].cred >>

\* C5 witness: a read failed after a chunk was delivered, with a second
\* candidate left untried.
C5_Witness ==
    /\ op \in StreamOps
    /\ sent # << >> /\ sent[Len(sent)].outcome = "broken"
    /\ delivered # << >>
    /\ Cardinality(Listing(model)) = 2
    /\ sent[Len(sent)].cred = 1

\* C6: when the transport has closed the stream of a streaming agent call, the
\* consumer's iteration has ended normally.
C6_StreamTermination ==
    (op = "agent_run_stream" /\ stream = "closed") =>
      /\ pc = "done"
      /\ result.ok
      /\ result.val.response = EndOfStream.val.response

\* C6 witness: the transport closed a streaming agent call after a chunk.
C6_Witness ==
    /\ op = "agent_run_stream" /\ stream = "closed" /\ delivered # << >>

\* C7: for a model name that no provider lists, both lookups raise
\* ModelNotFound (looked at on the client as constructed: the registry never
\* changes), and a public call on it makes no transport call, yields no
\* chunk and ends with ModelNotFound: agent_run, agent_run_stream, audio_speak
\* and audio_transcribe when called, audio_speak_stream at the consumer's first
\* request.
C7_ModelNotFound ==
    /\ \A name \in LookupNames :
         (pc = "idle" /\ Listing(name) = {}) =>
           /\ ~get_providers_for_model(name).ok
           /\ get_providers_for_model(name).val.kind = "ModelNotFound"
           /\ ~get_model_capabilities(name).ok
           /\ get_model_capabilities(name).val.kind = "ModelNotFound"
    /\ (op \in PublicOps /\ Listing(model) = {}) =>
         /\ sent = << >>
         /\ delivered = << >>
         /\ pc \in {"returned", "done"}
         /\ pc = "returned" => op = "audio_speak_stream"
         /\ pc = "done" => (~result.ok /\ result.val.kind = "ModelNotFound")

\* C7 witness: a streaming agent call with a binary message on a name that no
\* registered provider lists.
C7_Witness ==
    /\ op = "agent_run_stream" /\ pc = "done"
    /\ providers # << >> /\ Listing(model) = {}
    /\ \E i \in DOMAIN messages : IsBinary(messages[i])

\* C8: the provider lookup returns the credentials of exactly the providers
\* that list the name, in registration order, each once; it raises
\* ModelNotFound when there is none.
C8_ProvidersForModel ==
    (op = "get_providers_for_model" /\ pc = "done") =>
      IF Listing(model) = {}
      THEN ~result.ok /\ result.val.kind = "ModelNotFound"
      ELSE /\ result.ok
           /\ Len(result.val) = Cardinality(Listing(model))
           /\ \A k \in DOMAIN result.val :
                result.val[k] = providers[Candidate(model, k)].creds

\* C8 witness: the name is listed twice by the second provider and not at all
\* by the first.
C8_Witness ==
    /\ op = "get_providers_for_model" /\ pc = "done"
    /\ Len(providers) = 2
    /\ Listing(model) = {2}
    /\ Len(SelectSeq(providers[2].models, LAMBDA m : m.name = model)) = 2

\* C9: the capability lookup returns the capability set of the first
\* descriptor of the name in the first provider that lists it.
C9_CapabilitiesForModel ==
    (op = "get_model_capabilities" /\ pc = "done" /\ Listing(model) # {}) =>
      LET first == providers[Candidate(model, 1)].models
          j == CHOOSE j \in DOMAIN first :
                  /\ first[j].name = model
                  /\ \A h \in 1..(j - 1) : first[h].name # model
      IN  /\ result.ok
          /\ result.val = first[j].capabilities

\* C9 witness: a later provider declares a different capability set for the
\* name.
C9_Witness ==
    /\ op = "get_model_capabilities" /\ pc = "done"
    /\ Cardinality(Listing(model)) = 2
    /\ result.ok
    /\ \E m \in { providers[Candidate(model, 2)].models[j] :
                    j \in DOMAIN providers[Candidate(model, 2)].models } :
         m.name = model /\ m.capabilities # result.val

\* The capability the specification's table gives the modality a MIME type
\* starts with.
ModalityCapability(mime_type) ==
    CASE mime_type[1] = "image" -> IMAGE_AGENT
      [] mime_type[1] = "video" -> VIDEO_AGENT
      [] mime_type[1] = "audio" -> AUDIO_AGENT
      [] OTHER -> "none"

\* A binary message of the call needs a capability the target model lacks.
TargetLacks ==
    LET first == providers[Candidate(model, 1)].models
        registered == first[FirstModelNamed(first, 1, model)].capabilities
    IN  \E i \in DOMAIN messages :
            /\ IsBinary(messages[i])
            /\ ModalityCapability(messages[i].mime_type) # "none"
            /\ ModalityCapability(messages[i].mime_type) \notin registered

TransformEntries == SelectSeq(sent, LAMBDA e : e.frame = "transform")
RegisteredCapabilities ==
    LET first == providers[Candidate(model, 1)].models
    IN  first[FirstModelNamed(first, 1, model)].capabilities
\* The sub-request for messages[i] that was answered, if there is one.
Transformed(i) ==
    { k \in DOMAIN sent :
        /\ sent[k].frame = "transform"
        /\ sent[k].outcome = "ok"
        /\ sent[k].request.messages[2] = messages[i] }

\* C11: with the force flag, the list preprocessing returns holds no binary
\* message: every binary message of the caller, also one whose capability the
\* target model has, is replaced by a text message holding the answer of a
\* transformation sub-request for it; and the list a successful forced
\* agent_run returns holds no binary message.
C11_ForceTransform ==
    /\ (op \in AgentOps /\ force_binary_transformation /\ preprocessed.returned) =>
         /\ Len(preprocessed.messages) = Len(messages)
         /\ \A i \in DOMAIN messages :
              /\ ~IsBinary(preprocessed.messages[i])
              /\ IsBinary(messages[i]) =>
                   \E k \in Transformed(i) :
                       preprocessed.messages[i].content
                         = Output(sent[k].call, sent[k].cred, sent[k].request)
    /\ (op = "agent_run" /\ force_binary_transformation /\ pc = "done" /\ result.ok) =>
         \A i \in DOMAIN result.val.messages : ~IsBinary(result.val.messages[i])

\* C11 witness: a forced agent_run succeeded on an image for a target model
\* registered with the image capability.
C11_Witness ==
    /\ op = "agent_run" /\ force_binary_transformation /\ pc = "done" /\ result.ok
    /\ Len(messages) = 2
    /\ IsBinary(messages[1]) /\ messages[1].mime_type[1] = "image"
    /\ IMAGE_AGENT \in RegisteredCapabilities
    /\ ~IsBinary(result.val.messages[1])

\* Every binary message of the call has a modality whose capability is in the
\* capability set registered for the target model.
AllRequiredPresent ==
    LET registered == RegisteredCapabilities
    IN  \A i \in DOMAIN messages :
            IsBinary(messages[i]) =>
              /\ ModalityCapability(messages[i].mime_type) # "none"
              /\ ModalityCapability(messages[i].mime_type) \in registered

\* C12: without the force flag, for a registered target model that has every
\* capability the binary messages require, preprocessing returns the caller's
\* list as it is, binaries still binary, and no transformation sub-request is
\* sent.
C12_PassThrough ==
    (op \in AgentOps /\ ~force_binary_transformation /\ Listing(model) # {}
        /\ AllRequiredPresent) =>
      /\ preprocessed.returned
      /\ preprocessed.messages = messages
      /\ \A k \in DOMAIN sent : sent[k].frame # "transform"

\* C12 witness: an image and an audio message passed through for a target
\* model that has both capabilities.
C12_Witness ==
    /\ op = "agent_run" /\ ~force_binary_transformation /\ preprocessed.returned
    /\ Len(messages) = 2
    /\ IsBinary(messages[1]) /\ messages[1].mime_type[1] = "image"
    /\ IsBinary(messages[2]) /\ messages[2].mime_type[1] = "audio"
    /\ {IMAGE_AGENT, AUDIO_AGENT} \subseteq RegisteredCapabilities
    /\ IsBinary(preprocessed.messages[1]) /\ IsBinary(preprocessed.messages[2])

AllText == \A i \in DOMAIN messages : ~IsBinary(messages[i])

\* C13: without the force flag, for a registered target model, preprocessing a
\* list of text messages returns that list, preprocessing the returned list
\* again returns it again, and no transformation sub-request is sent.
C13_Idempotence ==
    (op \in AgentOps /\ ~force_binary_transformation /\ Listing(model) # {}
        /\ AllText) =>
      /\ preprocessed.returned
      /\ preprocessed.messages = messages
      /\ LET again == preprocess_messages(preprocessed.messages, model, FALSE)
         IN  /\ again.at = "return"
             /\ again.out = messages
      /\ TransformEntries = << >>

\* C13 witness: a list of two text messages was preprocessed for a registered
\* target model that has no capability.
C13_Witness ==
    /\ op = "agent_run_stream" /\ ~force_binary_transformation /\ preprocessed.returned
    /\ Len(messages) = 2 /\ AllText
    /\ RegisteredCapabilities = {}

\* C14: for a binary message whose MIME type starts with image, video or audio
\* the required capability is the one of that modality, and for any other MIME
\* type the mapping raises UnsupportedMimeType; so a call without the force
\* flag that holds a binary message whose MIME type starts with none of the
\* three ends with UnsupportedMimeType before any transport call.
C14_MimeMapping ==
    /\ op \in AgentOps =>
         \A i \in DOMAIN messages :
             IsBinary(messages[i]) =>
               LET c == CapabilityOfMime(messages[i].mime_type)
               IN  IF ModalityCapability(messages[i].mime_type) # "none"
                   THEN c.ok /\ c.val = ModalityCapability(messages[i].mime_type)
                   ELSE ~c.ok
    /\ (op \in AgentOps /\ ~force_binary_transformation /\ Listing(model) # {}
          /\ \E i \in DOMAIN messages :
                /\ IsBinary(messages[i])
                /\ ModalityCapability(messages[i].mime_type) = "none") =>
         /\ pc = "done"
         /\ ~result.ok
         /\ result.val.kind = "UnsupportedMimeType"
         /\ sent = << >>

\* C15: a call on a registered model whose list holds a binary message that
\* the MIME mapping rejects ends with UnsupportedMimeType without any transport
\* call, with and without the force flag, wherever that message stands.
C15_UnsupportedImmediately ==
    (op \in AgentOps /\ Listing(model) # {}
       /\ \E i \in DOMAIN messages :
             /\ IsBinary(messages[i])
             /\ ~CapabilityOfMime(messages[i].mime_type).ok) =>
      /\ pc = "done"
      /\ ~result.ok
      /\ result.val.kind = "UnsupportedMimeType"
      /\ sent = << >>

\* No model of any registered provider has the capability.
NoModelHas(capability) ==
    \A i \in DOMAIN providers :
        \A j \in DOMAIN providers[i].models :
            capability \notin providers[i].models[j].capabilities
\* The transformation sub-requests answered so far: one per message converted.
Converted == SelectSeq(sent, LAMBDA e : e.frame = "transform" /\ e.outcome = "ok")
BinariesBefore(i) == { h \in 1..(i - 1) : IsBinary(messages[h]) }

\* C16: when the conversion reaches a binary message (every binary message
\* before it has been converted, and the force flag is set or the whole list
\* passed the MIME mapping) whose modality's capability no registered model
\* has, the call ends with NoCapableModel for that capability and no primary
\* request is sent.
C16_NoCapableModel ==
    \A i \in DOMAIN messages :
        (/\ op \in AgentOps
         /\ IsBinary(messages[i])
         /\ ModalityCapability(messages[i].mime_type) # "none"
         /\ NoModelHas(ModalityCapability(messages[i].mime_type))
         /\ Listing(model) # {}
         /\ \/ force_binary_transformation
            \/ \A h \in DOMAIN messages :
                  IsBinary(messages[h]) => CapabilityOfMime(messages[h].mime_type).ok
         /\ Len(Converted) = Cardinality(BinariesBefore(i))) =>
          /\ pc = "done"
          /\ ~result.ok
          /\ result.val.kind = "NoCapableModel"
          /\ result.val.detail = << ModalityCapability(messages[i].mime_type) >>
          /\ PrimaryEntries = << >>

\* C16 witness: the image was converted and no registered model has the audio
\* capability the second message requires.
C16_Witness ==
    /\ op = "agent_run" /\ pc = "done" /\ ~result.ok
    /\ result.val.kind = "NoCapableModel"
    /\ Len(messages) = 2
    /\ IsBinary(messages[1]) /\ messages[1].mime_type[1] = "image"
    /\ IsBinary(messages[2]) /\ messages[2].mime_type[1] = "audio"
    /\ Len(Converted) = 1
    /\ NoModelHas(AUDIO_AGENT)

\* C17: no model is asked twice to transform the same message: two
\* transformation sub-requests with the same candidate model, the same binary
\* message and the same credentials belong to the conversions of two messages,
\* so a conversion was completed between them; and the first candidate is the
\* target model when it has the capability.
C17_TransformerCandidates ==
    /\ \A a, b \in DOMAIN sent :
         (/\ a < b
          /\ sent[a].frame = "transform" /\ sent[b].frame = "transform"
          /\ sent[a].request = sent[b].request
          /\ sent[a].cred = sent[b].cred) =>
           \E k \in a..(b - 1) : sent[k].outcome = "ok"
    /\ (pc = "await" /\ fb.frame = "transform") =>
         \A a, b \in DOMAIN pre.models :
             (a # b /\ pre.models[a].name = model) => pre.models[b].name # model

\* C18: a transformation sub-request naming a candidate model is sent with the
\* credentials of a provider that lists that model with the capability the
\* binary message requires.
C18_TransformerCredentials ==
    \A k \in DOMAIN sent :
        sent[k].frame = "transform" =>
          \E i \in DOMAIN providers :
              /\ providers[i].creds = sent[k].cred
              /\ \E j \in DOMAIN providers[i].models :
                    /\ providers[i].models[j].name = sent[k].request.model
                    /\ CapabilityOfMime(sent[k].request.messages[2].mime_type).val
                         \in providers[i].models[j].capabilities

\* C19: when the caller passes a capability override, preprocessing decides
\* with the override set in place of the registered set (a binary message
\* whose capability the override lacks is converted), and the override is not
\* part of the generation settings of the primary request.
C19_CapabilityOverride ==
    (op \in AgentOps /\ gen_config.model_capabilities # << >>) =>
      /\ \A k \in DOMAIN sent :
           sent[k].frame = "primary" =>
             sent[k].request.gen_config.model_capabilities = << >>
      /\ (/\ ~force_binary_transformation
          /\ preprocessed.returned
          /\ \E i \in DOMAIN messages :
                /\ IsBinary(messages[i])
                /\ ModalityCapability(messages[i].mime_type) # "none"
                /\ ModalityCapability(messages[i].mime_type)
                     \notin gen_config.model_capabilities[1]) =>
           \A i \in DOMAIN preprocessed.messages : ~IsBinary(preprocessed.messages[i])

\* C20: every primary request of agent_run and agent_run_stream, whichever
\* candidate it is sent to, carries the list preprocessing returned, which is
\* the list agent_run_stream returns with its iterator; and the list a
\* successful agent_run returns is that same list.
C20_EffectiveMessages ==
    /\ op \in AgentOps =>
         \A k \in DOMAIN sent :
             sent[k].frame = "primary" =>
               /\ preprocessed.returned
               /\ sent[k].request.messages = preprocessed.messages
    /\ (op = "agent_run" /\ pc = "done" /\ result.ok) =>
         /\ result.val.messages = preprocessed.messages
         /\ \A k \in DOMAIN sent :
                sent[k].frame = "primary" =>
                  sent[k].request.messages = result.val.messages

\* C20 witness: an agent_run whose image was converted, whose first candidate
\* failed and whose second candidate answered.
C20_Witness ==
    /\ op = "agent_run" /\ pc = "done" /\ result.ok
    /\ Len(messages) = 1 /\ IsBinary(messages[1])
    /\ result.val.messages # messages
    /\ Len(PrimaryEntries) = 2
    /\ PrimaryEntries[1].outcome = "failed"
    /\ PrimaryEntries[1].cred # PrimaryEntries[2].cred

Binaries == { i \in DOMAIN messages : IsBinary(messages[i]) }

\* C21: in agent_run_stream, once the call has returned the stream (and so
\* before any streaming transport call of the primary request) preprocessing
\* has returned: no transformation sub-request is in flight, every one was
\* sent before the first primary call, and with the force flag every binary
\* message has been converted; and a call whose preprocessing failed has ended
\* with the error, without a primary call and without a chunk.
C21_EagerPreprocessing ==
    op = "agent_run_stream" =>
      /\ (pc \in {"returned", "opening", "streaming"} \/ PrimaryEntries # << >>) =>
           /\ preprocessed.returned
           /\ \A k \in DOMAIN sent :
                sent[k].frame = "transform" =>
                  /\ sent[k].outcome \in {"ok", "failed"}
                  /\ \A b \in DOMAIN sent : sent[b].frame = "primary" => k < b
           /\ force_binary_transformation =>
                Len(Converted) = Cardinality(Binaries)
      /\ (pc = "done" /\ ~preprocessed.returned) =>
           /\ ~result.ok
           /\ PrimaryEntries = << >>
           /\ delivered = << >>

\* C21 witness: a streaming agent call is reading its stream after a
\* conversion whose first sub-request failed.
C21_Witness ==
    /\ op = "agent_run_stream" /\ pc = "streaming"
    /\ Len(Converted) = 1
    /\ Len(TransformEntries) = 2
    /\ TransformEntries[1].outcome = "failed"

\* C22: an attempt the caller gave up (the task awaiting a non-streaming
\* attempt was cancelled, or the consumer of a stream cancelled or closed it)
\* is the last transport call: the call is over with the cancellation, and no
\* further candidate is attempted.
C22_CancellationIsNotFailure ==
    \A i \in DOMAIN sent :
        sent[i].outcome \in {"cancelled", "abandoned"} =>
          /\ i = Len(sent)
          /\ pc = "done"
          /\ ~result.ok
          /\ result.val.kind \in {"CancelledError", "GeneratorExit"}

\* C22 witness: the first of two candidates of a public call was cancelled
\* after a conversion.
C22_Witness ==
    /\ op = "agent_run" /\ pc = "done"
    /\ Len(Converted) = 1
    /\ sent[Len(sent)].frame = "primary"
    /\ sent[Len(sent)].outcome = "cancelled"
    /\ Cardinality(Listing(model)) = 2
    /\ sent[Len(sent)].cred = 1

\* C23: with two providers of which only the first lists the model asked for,
\* an agent_run whose attempt on the first provider failed goes on to an
\* attempt on the second provider with a model that provider lists.
C23_CrossModelFallback ==
    \A i \in DOMAIN sent :
        (/\ op = "agent_run"
         /\ Len(providers) = 2 /\ Listing(model) = {1}
         /\ sent[i].frame = "primary" /\ sent[i].outcome = "failed") =>
          /\ i < Len(sent)
          /\ sent[i + 1].frame = "primary"
          /\ sent[i + 1].cred = providers[2].creds
          /\ \E j \in DOMAIN providers[2].models :
                providers[2].models[j].name = sent[i + 1].request.model

\* C24: every binary message a caller has built and passed to a call has the
\* role "user".
C24_BinaryRole ==
    \A i \in DOMAIN messages :
        IsBinary(messages[i]) => messages[i].role = USER

\* C25: a streaming call none of whose candidates established its stream ends,
\* for the consumer, with the aggregate error, whose list holds one entry per
\* candidate in attempt order.
C25_StreamingExhaustion ==
    (/\ op \in StreamOps /\ pc = "done"
     /\ PrimaryEntries # << >>
     /\ \A k \in DOMAIN PrimaryEntries : PrimaryEntries[k].outcome = "refused") =>
      /\ ~result.ok
      /\ result.val.kind = "FallbackExhausted"
      /\ Len(result.val.detail[2]) = Cardinality(Listing(model))
      /\ \A k \in DOMAIN result.val.detail[2] :
           result.val.detail[2][k]
             = << model, TransportError(providers[Candidate(model, k)].creds) >>

\* The places of the caller's binary messages, in message order, and the number
\* of conversions completed before the k-th transport attempt.
BinaryPlaces == SelectSeq([i \in DOMAIN messages |-> i], LAMBDA i : IsBinary(messages[i]))
ConvertedBefore(k) ==
    Cardinality({ h \in 1..(k - 1) : sent[h].frame = "transform" /\ sent[h].outcome = "ok" })

\* C26: within one public call at most one transport attempt is in flight: only
\* the attempt issued last can be unanswered, and it is exactly while the call
\* waits for the transport; a later attempt of a fallback sequence follows a
\* failed one; a new sequence starts after the one before it has finished; and
\* the transformation sub-request issued last (the log only grows, so each one
\* is the last entry when it is issued) is for the first binary message, in
\* message order, that is not converted yet.
C26_SequentialAttempts ==
    /\ \A k \in DOMAIN sent :
         /\ sent[k].outcome = "pending" =>
              (k = Len(sent) /\ pc \in {"await", "opening"})
         /\ k > 1 =>
              IF sent[k].run = sent[k - 1].run
              THEN sent[k - 1].outcome = "failed"
              ELSE sent[k - 1].outcome \in {"ok", "failed"}
    /\ (sent # << >> /\ sent[Len(sent)].frame = "transform") =>
         LET places == BinaryPlaces
             done == ConvertedBefore(Len(sent))
         IN  /\ done < Len(places)
             /\ sent[Len(sent)].request.messages[2] = messages[places[done + 1]]
    /\ pc \in {"await", "opening"} =>
         (sent # << >> /\ sent[Len(sent)].outcome = "pending")

\* C26 witness: an agent_run succeeded after the sub-requests for two binary
\* messages, one of which needed a second attempt.
C26_Witness ==
    /\ op = "agent_run" /\ pc = "done" /\ result.ok
    /\ Len(BinaryPlaces) = 2
    /\ Len(Converted) = 2
    /\ \E k \in DOMAIN sent : sent[k].frame = "transform" /\ sent[k].outcome = "failed"
    /\ sent[Len(sent)].frame = "primary"

\* C27: an agent call whose conversion of a binary message failed on every
\* candidate model ends with that aggregate error, with no primary request sent
\* and with no list returned by the preprocessing; and a preprocessing that
\* sent sub-requests returns, and a primary request is sent, only when every
\* binary message was converted and the list returned holds no binary message.
C27_AllOrNothing ==
    /\ (/\ op \in AgentOps /\ pc = "done" /\ sent # << >>
        /\ sent[Len(sent)].frame = "transform"
        /\ sent[Len(sent)].outcome = "failed") =>
         /\ ~result.ok
         /\ pre.errors # << >>
         /\ result.val = TransformerExhausted(pre.errors)
         /\ PrimaryEntries = << >>
         /\ ~preprocessed.returned
    /\ (/\ op \in AgentOps
        /\ \/ preprocessed.returned
           \/ \E k \in DOMAIN sent : sent[k].frame = "primary"
        /\ \E k \in DOMAIN sent : sent[k].frame = "transform") =>
         /\ preprocessed.returned
         /\ Len(Converted) = Cardinality(Binaries)
         /\ Len(preprocessed.messages) = Len(messages)
         /\ \A i \in DOMAIN preprocessed.messages : ~IsBinary(preprocessed.messages[i])

\* C27 witness: the first binary message was converted, the second one failed
\* on every candidate model, and the agent run ended with the aggregate error.
C27_Witness ==
    /\ op = "agent_run" /\ pc = "done" /\ ~result.ok
    /\ result.val.kind = "FallbackExhausted"
    /\ result.val.detail[1] = "binary transformer"
    /\ Len(BinaryPlaces) = 2
    /\ Len(Converted) = 1
    /\ PrimaryEntries = << >>

\* The candidate models of the conversion of messages[i], as __binary_to_text
\* lists them, and the transport attempts of the conversion that the k-th
\* attempt belongs to, with the number of fallback sequences among them.
CandidateModels(i) ==
    binary_to_text(messages[i], Model(model, get_model_capabilities(model).val)).val.models
SameConversion(k) ==
    { h \in 1..k : sent[h].frame = "transform" /\ ConvertedBefore(h) = ConvertedBefore(k) }
ModelPlace(k) == Cardinality({ sent[h].run : h \in SameConversion(k) })

\* C28: the sub-requests of one conversion go to the candidate models in list
\* order.  The transport log only grows, so every sub-request is the last entry
\* of the log in the state that follows its issue and until it is answered:
\* there, the r-th fallback sequence of the conversion asks the r-th candidate
\* model, it starts only after the sequence before it failed on its last
\* provider, and the sub-request after an answered one is the first of the next
\* binary message; the conversion fails only after the last candidate model
\* failed; and the answer of the sub-request that succeeded is the content of
\* the text message.
C28_ModelLevelFallback ==
    /\ (sent # << >> /\ sent[Len(sent)].frame = "transform") =>
         LET k == Len(sent)
             i == BinaryPlaces[ConvertedBefore(k) + 1]
             candidates == CandidateModels(i)
             place == ModelPlace(k)
         IN  /\ place <= Len(candidates)
             /\ sent[k].request.model = candidates[place].name
             /\ (k > 1 /\ sent[k - 1].frame = "transform"
                       /\ sent[k - 1].run # sent[k].run
                       /\ sent[k - 1].outcome = "failed") =>
                  PlaceOf(sent[k - 1].request.model, sent[k - 1].cred)
                    = Cardinality(Listing(sent[k - 1].request.model))
             /\ (k > 1 /\ sent[k - 1].frame = "transform"
                       /\ sent[k - 1].outcome = "ok") =>
                  place = 1
             /\ (pc = "done" /\ sent[k].outcome = "failed") =>
                  place = Len(candidates)
    /\ (op \in AgentOps /\ preprocessed.returned /\ sent # << >>
                         /\ sent[1].frame = "transform") =>
         LET places == BinaryPlaces
             converted == Converted
         IN  \A j \in DOMAIN places :
                 preprocessed.messages[places[j]].content
                   = Output(converted[j].call, converted[j].cred, converted[j].request)

\* C28 witness: the first candidate model of a conversion failed, the second
\* one, a model of another name, answered, and its answer is the content the
\* agent run sent on.
C28_Witness ==
    /\ op = "agent_run" /\ pc = "done" /\ result.ok
    /\ Len(sent) >= 3
    /\ sent[1].frame = "transform" /\ sent[1].outcome = "failed"
    /\ sent[2].frame = "transform" /\ sent[2].outcome = "ok"
    /\ sent[1].request.model # sent[2].request.model
    /\ preprocessed.messages[BinaryPlaces[1]].content
         = Output(sent[2].call, sent[2].cred, sent[2].request)

\* The one entry the model-level sequence holds for a candidate model whose
\* provider-level fallback was exhausted: the model's name with the aggregate
\* error, which lists one transport error per provider of the model in order.
FoldedEntry(name) ==
    << name,
       Exhausted([p \in 1..Cardinality(Listing(name)) |->
                    << name, TransportError(providers[Candidate(name, p)].creds) >>]) >>

\* C29: while a conversion waits for the sub-request of its r-th candidate
\* model, the model-level error list holds exactly one entry for each of the
\* r - 1 candidate models before it, in attempt order, each one the aggregate
\* error of that model's provider-level fallback; and a conversion that failed
\* on every candidate model raises the list with one such entry per candidate.
C29_NestedErrorFolding ==
    /\ (pc = "await" /\ fb.frame = "transform") =>
         LET k == Len(sent)
             i == BinaryPlaces[ConvertedBefore(k) + 1]
         IN  /\ Len(pre.errors) = ModelPlace(k) - 1
             /\ \A r \in DOMAIN pre.errors :
                  pre.errors[r] = FoldedEntry(CandidateModels(i)[r].name)
    /\ (/\ op \in AgentOps /\ pc = "done" /\ sent # << >>
        /\ sent[Len(sent)].frame = "transform"
        /\ sent[Len(sent)].outcome = "failed") =>
         LET i == BinaryPlaces[ConvertedBefore(Len(sent)) + 1]
             errs == result.val.detail[2]
         IN  /\ result.val.kind = "FallbackExhausted"
             /\ result.val.detail[1] = "binary transformer"
             /\ Len(errs) = Len(CandidateModels(i))
             /\ \A r \in DOMAIN errs : errs[r] = FoldedEntry(CandidateModels(i)[r].name)

\* C29 witness: the first candidate model failed on both of its providers, the
\* two failures are one entry of the model-level list, and the sub-request of
\* the next candidate model is in flight.
C29_Witness ==
    /\ pc = "await" /\ fb.frame = "transform"
    /\ Len(pre.errors) = 1
    /\ Len(pre.errors[1][2].detail[2]) = 2
    /\ pre.model_i = 2

\* C30: every transformation sub-request (the log only grows, so each one is
\* the last entry of the log when it is issued and until it is answered) is an
\* agent_run request with exactly two messages, first a system text message
\* holding the fixed prompt of the binary's modality and then the caller's
\* binary message as it is, with no tools and with the generation config
\* {temperature: 0}, whatever tools and keyword arguments the caller gave.
C30_SubRequestShape ==
    (sent # << >> /\ sent[Len(sent)].frame = "transform") =>
      LET k == Len(sent)
          r == sent[k].request
          binary == messages[BinaryPlaces[ConvertedBefore(k) + 1]]
      IN  /\ sent[k].call = "agent_run"
          /\ Len(r.messages) = 2
          /\ r.messages[1].type = "text"
          /\ r.messages[1].role = SYSTEM
          /\ r.messages[1].content
               \in { << "You will act as ASR." >>, << "You will act as OCR." >>,
                     << "You will act as VSR." >> }
          /\ binary.mime_type[1] = "audio" =>
               r.messages[1].content = << "You will act as ASR." >>
          /\ binary.mime_type[1] = "image" =>
               r.messages[1].content = << "You will act as OCR." >>
          /\ binary.mime_type[1] = "video" =>
               r.messages[1].content = << "You will act as VSR." >>
          /\ r.messages[2] = binary
          /\ r.tools = << >>
          /\ r.gen_config = [temperature |-> << 0 >>, model_capabilities |-> << >>]

\* C30 witness: a caller that passed a keyword argument of its own and a
\* non-user audio message; the audio was converted by a sub-request, and the
\* primary request carries the caller's tools and keyword arguments.
C30_Witness ==
    /\ op = "agent_run" /\ pc = "done" /\ result.ok
    /\ gen_config # NoKeywords
    /\ \E k \in DOMAIN sent :
          /\ sent[k].frame = "transform" /\ sent[k].outcome = "ok"
          /\ sent[k].request.messages[2].mime_type[1] = "audio"
          /\ sent[k].request.messages[2].role = MODEL
    /\ sent[Len(sent)].frame = "primary"
    /\ sent[Len(sent)].request.tools = CallerTools
    /\ sent[Len(sent)].request.gen_config = gen_config

\* The client lists the name.
ListedBy(client, name) ==
    \E i \in DOMAIN clients[client] :
        \E j \in DOMAIN clients[client][i].models :
            clients[client][i].models[j].name = name

\* The wrapper holds at most its maximum of entries, one per key, and none for
\* a name the key's client does not list.
NoneRemembered(entries) ==
    /\ Len(entries) <= MaxCache
    /\ \A i \in DOMAIN entries :
         /\ ListedBy(entries[i].key[1], entries[i].key[2])
         /\ \A j \in DOMAIN entries : entries[j].key = entries[i].key => j = i

\* C31: whatever lookups were made before on any client, a lookup through the
\* cache returns what the scan of the client's own provider list returns, a
\* value or ModelNotFound; a wrapper holds at most its maximum of entries, one
\* per key, and none for a name its client does not list.
C31_CacheTransparency ==
    /\ (op = "get_providers_for_model" /\ pc = "done") =>
         result = get_providers_for_model(model)
    /\ (op = "get_model_capabilities" /\ pc = "done") =>
         result = get_model_capabilities(model)
    /\ NoneRemembered(cache.providers_for_model)
    /\ NoneRemembered(cache.model_capabilities)

\* C31 witness: a lookup on the second client was answered from a full cache
\* that also holds the first client's different entry for the same name.
C31_Witness ==
    /\ op = "get_providers_for_model" /\ pc = "done" /\ self = 2
    /\ cache.last = "hit"
    /\ Len(cache.providers_for_model) = MaxCache
    /\ \E i \in DOMAIN cache.providers_for_model :
          /\ cache.providers_for_model[i].key = << 1, model >>
          /\ cache.providers_for_model[i].value # result.val

\* What a call that runs alone does, given what the transport answered to its
\* attempts: it asks the providers that list its model in registration order,
\* each after the one before it failed, and it ends with ModelNotFound, with
\* the answer of the first candidate that succeeded, or with the errors of all
\* candidates.
AsAlone(call) ==
    /\ \A k \in DOMAIN call.attempts :
         /\ call.attempts[k].cred = providers[Candidate(call.model, k)].creds
         /\ k < Len(call.attempts) => call.attempts[k].outcome = "failed"
    /\ call.pc = "await" =>
         call.attempts[Len(call.attempts)].outcome = "pending"
    /\ call.pc = "done" =>
         IF Listing(call.model) = {}
         THEN /\ call.attempts = << >>
              /\ ~call.result.ok
              /\ call.result.val.kind = "ModelNotFound"
         ELSE LET last == call.attempts[Len(call.attempts)]
              IN  IF last.outcome = "ok"
                  THEN /\ call.result.ok
                       /\ call.result.val.response
                            = Output(call.op, last.cred, CallRequest(call.op, call.model))
                  ELSE /\ last.outcome = "failed"
                       /\ Len(call.attempts) = Cardinality(Listing(call.model))
                       /\ call.result
                            = [ok |-> FALSE,
                               val |-> Exhausted(
                                   [k \in DOMAIN call.attempts |->
                                      << call.model,
                                         TransportError(call.attempts[k].cred) >>])]

\* C32: while calls run interleaved on one client, its provider list is the
\* one it was constructed with, and every call attempts the candidates and gets
\* the result it would attempt and get alone.
C32_ConcurrentCallsIndependent ==
    /\ providers = clients[self]
    /\ \A c \in DOMAIN calls : calls[c].op # "none" => AsAlone(calls[c])

\* C32 witness: two calls for the same model; the second one started while the
\* first one was waiting, failed on both candidates and ended, and the first
\* one is on its second candidate.
C32_Witness ==
    /\ calls[1].model = calls[2].model
    /\ calls[1].pc = "await" /\ Len(calls[1].attempts) = 2
    /\ calls[2].pc = "done" /\ ~calls[2].result.ok
    /\ Len(calls[2].attempts) = 2
    /\ cache.last = "hit"

\* C33: the chunks the consumer has received are the chunks the raw generator
\* of the selected candidate has yielded, in its order and each once; iterating
\* the ended sequence again ends at once, delivers nothing more and leaves the
\* one transport call of the stream the only one.
C33_StreamPassThrough ==
    /\ delivered = produced
    /\ delivered # << >> =>
         LET last == sent[Len(sent)]
         IN  /\ last.call = StreamCall /\ last.frame = "primary"
             /\ \A k \in DOMAIN delivered :
                   delivered[k] = << "chunk", last.cred, k >>
    /\ stream = "exhausted" =>
         /\ pc = "done" /\ result = EndOfStream
         /\ Len(PrimaryEntries) = 1
         /\ sent[Len(sent)].frame = "primary"
         /\ sent[Len(sent)].outcome = "closed"

\* C33 witness: an agent stream delivered its chunks in order, closed, and
\* was iterated again.
C33_Witness ==
    /\ stream = "exhausted" /\ op = "agent_run_stream"
    /\ Len(delivered) = MaxChunks
    /\ delivered[1] # delivered[2]
    /\ sent[Len(sent)].outcome = "closed"

\* The candidate models of the conversion of messages[i], when there is one.
CandidatesOf(i) ==
    LET capabilities == get_model_capabilities(model)
    IN  IF ~capabilities.ok THEN << >>
        ELSE LET c == binary_to_text(messages[i], Model(model, capabilities.val))
             IN  IF c.ok THEN c.val.models ELSE << >>
\* The providers that list models[k], models[k + 1], ..., counted per model.
RECURSIVE ProviderAttempts(_, _)
ProviderAttempts(models, k) ==
    IF k > Len(models) THEN 0
    ELSE Cardinality(Listing(models[k].name)) + ProviderAttempts(models, k + 1)
RECURSIVE ConversionAttempts(_)
ConversionAttempts(i) ==
    IF i > Len(messages) THEN 0
    ELSE (IF IsBinary(messages[i]) THEN ProviderAttempts(CandidatesOf(i), 1) ELSE 0)
         + ConversionAttempts(i + 1)
AttemptBound == Cardinality(Listing(model)) + ConversionAttempts(1)

\* The transport calls of a call are within the bound, and a sub-request goes
\* to the transport with its binary message as it is.
BoundedAttempts ==
    sent # << >> =>
        /\ Len(sent) <= AttemptBound
        /\ LET last == sent[Len(sent)]
           IN  last.frame = "transform" =>
                 /\ Len(last.request.messages) = 2
                 /\ IsBinary(last.request.messages[2])
                 /\ last.request.messages[2] \in { messages[i] : i \in Binaries }

\* C34: with a transport that answers every call, every non-streaming public
\* call ends; the transport calls of one call number at most the providers that
\* list the target plus, for every binary message, the providers listing each
\* model of its candidate list; and a transformation sub-request is sent as it
\* is built, its binary message not preprocessed again.
C34_TerminationAndBoundedAttempts ==
    /\ []BoundedAttempts
    /\ (op \in NonStreamOps) ~> (pc = "done")

\* C34 witness: an agent run whose conversion and whose primary request both
\* fell back once has ended, having made as many transport calls as the bound
\* allows.
C34_Witness ==
    /\ op = "agent_run" /\ pc = "done" /\ result.ok
    /\ Len(sent) = AttemptBound
    /\ Len(TransformEntries) = 2 /\ Len(PrimaryEntries) = 2

\* C35: every candidate of the primary request of an agent run is sent the one
\* request built after preprocessing (the model name, the preprocessed list,
\* the caller's tools and generation settings), the same as the candidate
\* before it; and when the first provider's descriptor of the target has every
\* required capability and the force flag is off, that list is the caller's,
\* binary messages included, whatever the descriptor of the candidate's
\* provider says.
C35_OneRequestForAllCandidates ==
    (sent # << >> /\ op = "agent_run") =>
        LET last == sent[Len(sent)]
        IN  last.frame = "primary" =>
              /\ last.request
                   = AgentRequest(model, preprocessed.messages, CallerTools, gen_config)
              /\ (Len(sent) > 1 /\ sent[Len(sent) - 1].frame = "primary") =>
                   sent[Len(sent) - 1].request = last.request
              /\ (~force_binary_transformation /\ AllRequiredPresent) =>
                   last.request.messages = messages

\* C35 witness: the second candidate of a primary request, whose provider
\* registers the target without the image capability, is sent the image.
C35_Witness ==
    /\ op = "agent_run" /\ Len(sent) = 2
    /\ sent[1].frame = "primary" /\ sent[1].outcome = "failed"
    /\ sent[2].frame = "primary" /\ sent[2].cred = 2
    /\ LET listed == providers[2].models
       IN  IMAGE_AGENT \notin listed[FirstModelNamed(listed, 1, model)].capabilities
    /\ IMAGE_AGENT \in RegisteredCapabilities
    /\ \E i \in DOMAIN sent[2].request.messages :
          /\ IsBinary(sent[2].request.messages[i])
          /\ sent[2].request.messages[i].mime_type[1] = "image"

\* C36: a streaming call that has returned its stream has sent no transport
\* call for the primary request and has raised nothing, also when no provider
\* lists the model of a streaming speak; a primary transport call of a
\* streaming operation is there only once the consumer has asked for the first
\* chunk.
C36_LazyStreamOpening ==
    /\ pc = "returned" =>
         /\ op \in StreamOps
         /\ result = NoResult /\ stream = "none"
         /\ sent # << >> =>
              /\ sent[Len(sent)].frame = "transform"
              /\ sent[Len(sent)].outcome = "ok"
         /\ op = "audio_speak_stream" => sent = << >>
    /\ (op \in StreamOps /\ sent # << >> /\ sent[Len(sent)].frame = "primary") =>
         /\ pc \in {"opening", "streaming", "done"}
         /\ stream # "none"

\* C36 witness: agent_run_stream has returned its stream after a conversion,
\* for a model that a provider lists, and the consumer has not iterated it.
C36_Witness ==
    /\ op = "agent_run_stream" /\ pc = "returned"
    /\ Listing(model) # {}
    /\ sent # << >>
    /\ \A k \in DOMAIN sent : sent[k].frame = "transform"

\* C37: whatever preprocessing does (returns, raises, or waits for a
\* sub-request), the caller's list holds the objects it held at the call and
\* each of them is as it was; a list returned after conversion is another list
\* object, of the same length, that holds the caller's text message objects
\* themselves and a new text message in the place of every binary message.
C37_InputNotModified ==
    heap.pc # "idle" =>
        /\ heap.lists[1] = [k \in 1..Len(messages) |-> k]
        /\ \A k \in 1..Len(messages) : heap.objects[k] = messages[k]
        /\ (heap.pc = "returned" /\ heap.out # 1) =>
             LET out == heap.lists[heap.out]
             IN  /\ Len(out) = Len(messages)
                 /\ \A k \in DOMAIN out :
                       IF IsBinary(messages[k])
                       THEN /\ out[k] > Len(messages)
                            /\ ~IsBinary(heap.objects[out[k]])
                       ELSE out[k] = k
        /\ (heap.pc = "returned" /\ heap.out = 1) => ~force_binary_transformation

\* C37 witness: preprocessing returned a new list for a text message and an
\* image: the text message object itself and a new object.
C37_Witness ==
    /\ heap.pc = "returned" /\ heap.out = 2
    /\ Len(messages) = 2
    /\ ~IsBinary(messages[1]) /\ IsBinary(messages[2])
    /\ heap.lists[2] = << 1, 3 >>
    /\ heap.lists[1] = << 1, 2 >>

AudioOps == {"audio_speak", "audio_speak_stream", "audio_transcribe"}
\* The capabilities that the descriptor of provider i gives the model.
DescriptorOf(i) ==
    LET listed == providers[i].models
    IN  listed[FirstModelNamed(listed, 1, model)].capabilities

\* C38: a speak, streaming speak or transcribe call does no preprocessing; its
\* k-th transport call goes, with the request as built, to the k-th provider
\* in registration order that lists the model name, whatever capabilities the
\* descriptor advertises; a call on a listed name reaches the transport, and
\* one that fails on every candidate has tried every provider listing the name.
C38_AudioNotCapabilityGated ==
    op \in AudioOps =>
        /\ preprocessed = NotPreprocessed /\ pre = NoPre
        /\ sent # << >> =>
             LET last == sent[Len(sent)]
             IN  /\ last.frame = "primary" /\ last.call = op
                 /\ last.request = SpeakRequest(model)
                 /\ last.cred = providers[Candidate(model, Len(sent))].creds
        /\ (Listing(model) # {} /\ pc # "returned") => sent # << >>
        /\ (pc = "done" /\ ~result.ok /\ result.val.kind = "FallbackExhausted") =>
             Len(sent) = Cardinality(Listing(model))

\* C38 witness: a speak call is at its second candidate, a provider whose
\* descriptor of the model does not advertise the speak capability, after the
\* one that advertises it failed.
C38_Witness ==
    /\ op = "audio_speak" /\ pc = "await" /\ Len(sent) = 2
    /\ SPEAK \in DescriptorOf(1)
    /\ SPEAK \notin DescriptorOf(2)
    /\ sent[2].cred = providers[2].creds

====
